---- MODULE Spec2Model ----
(***************************************************************************)
(* Verification model of the dialog controls of ask-sdk-controls:          *)
(*   - MultiValueListControl  (specification Spec)                         *)
(*   - QuestionnaireControl   (specification SpecQ)                        *)
(*   - list pagination        (specification SpecPage)                     *)
(* A turn is: the runtime builds the control (NewTurn), calls canHandle,   *)
(* then handle when canHandle returned true, and runs the initiative phase *)
(* (canTakeInitiative / takeInitiative) when the result holds no           *)
(* initiative act.                                                         *)
(***************************************************************************)
EXTENDS Integers, Sequences, FiniteSets, TLC

(***************************************************************************)
(* Bounds of the model                                                     *)
(***************************************************************************)
\* longest held list explored: an add request is offered only while the
\* held list plus the request fits
MaxHeld == 2
\* longest list of slot values in one intent
MaxReq == 2
\* largest page cursor and page size explored by the pagination check
MaxCursor == 6
MaxPageSize == 4
\* number of questions of the questionnaire under test
MaxQuestions == 2

(***************************************************************************)
(* Strings (constants/Strings.ts) and act names                            *)
(***************************************************************************)
Undefined == "undefined"
Affirm == "builtin_affirm"
Disaffirm == "builtin_disaffirm"
ActionAdd == "builtin_add"
ActionSelect == "builtin_select"
ActionRemove == "builtin_remove"
ActionDelete == "builtin_delete"
ActionIgnore == "builtin_ignore"
ActionClear == "builtin_clear"
ActionSet == "builtin_set"
ActionStart == "builtin_start"
ActionResume == "builtin_resume"
ActionComplete == "builtin_complete"
TargetIt == "builtin_it"
TargetChoice == "builtin_choice"
TargetDate == "builtin_date"

ValueAddedAct == "ValueAddedAct"
ValueRemovedAct == "ValueRemovedAct"
ValueClearedAct == "ValueClearedAct"
ValueConfirmedAct == "ValueConfirmedAct"
InvalidValueAct == "InvalidValueAct"
ConfirmValueAct == "ConfirmValueAct"
RequestValueByListAct == "RequestValueByListAct"
RequestRemovedValueByListAct == "RequestRemovedValueByListAct"
SuggestActionAct == "SuggestActionAct"

AskQuestionAct == "AskQuestionAct"
AskIfCompleteAct == "AskIfCompleteAct"
SuggestContinueAct == "SuggestContinueAct"
ActiveAPLInitiativeAct == "ActiveAPLInitiative"
QuestionAnsweredAct == "QuestionAnsweredAct"
CompletedAct == "CompletedAct"
QuestionnaireCompletionRejectedAct == "QuestionnaireCompletionRejectedAct"
AcknowledgeNotCompleteAct == "AcknowledgeNotCompleteAct"

\* the acts that extend InitiativeAct
InitiativeActs ==
    {ConfirmValueAct, RequestValueByListAct, RequestRemovedValueByListAct, SuggestActionAct,
     AskQuestionAct, AskIfCompleteAct, SuggestContinueAct, ActiveAPLInitiativeAct}

(***************************************************************************)
(* Sequence helpers (the JavaScript array methods the code uses)           *)
(***************************************************************************)
Range(s) == {s[i] : i \in 1..Len(s)}

\* Array.prototype.includes
Includes(s, x) == x \in Range(s)

\* Array.prototype.indexOf, zero-based, -1 when absent
IndexOf(s, x) ==
    IF \E i \in 1..Len(s) : s[i] = x
    THEN (CHOOSE i \in 1..Len(s) : s[i] = x /\ \A j \in 1..(i - 1) : s[j] # x) - 1
    ELSE -1

\* Array.prototype.splice(index, 1), zero-based index
Splice1(s, index) == SubSeq(s, 1, index) \o SubSeq(s, index + 2, Len(s))

\* Array.prototype.slice(start, end): negative arguments count from the end,
\* both are clamped to the array, an empty range gives the empty array
Slice(s, start, end) ==
    LET len == Len(s)
        from == IF start < 0 THEN (IF len + start < 0 THEN 0 ELSE len + start)
                ELSE (IF start > len THEN len ELSE start)
        to == IF end < 0 THEN (IF len + end < 0 THEN 0 ELSE len + end)
              ELSE (IF end > len THEN len ELSE end)
    IN  IF from >= to THEN <<>> ELSE SubSeq(s, from + 1, to)

\* Array.prototype.filter with the predicate "not listed in bad"
FilterNotIn(s, bad) == SelectSeq(s, LAMBDA v : ~Includes(bad, v.id))

\* Array.prototype.map(({id}) => id)
Ids(s) == [i \in 1..Len(s) |-> s[i].id]

\* the sequences over S of length lo..hi
SeqsOf(S, lo, hi) == UNION {[1..n -> S] : n \in lo..hi}


(***************************************************************************)
(* MultiValueListControl: configuration, state and inputs                  *)
(***************************************************************************)
VARIABLES
    cfg,            \* the props the control manager passes to the constructor
    props,          \* this.props of the control instance of the current turn
    state,          \* this.state, persisted between turns
    input,          \* the ControlInput of the current turn
    handleFunc,     \* this.handleFunc
    initiativeFunc, \* this.initiativeFunc
    acts,           \* resultBuilder.acts of the current turn
    phase,          \* how far the runtime has driven the current turn
    pre,            \* this.state as rehydrated at the start of the turn
    emitted,        \* name of the last initiative act the control has emitted
    prevInitiative, \* name of the initiative act that ended the previous turn
    inputWasAnswerByTouch \* QuestionnaireControl.inputWasAnswerByTouch

mvVars ==
    <<cfg, props, state, input, handleFunc, initiativeFunc, acts, phase, pre, emitted,
      prevInitiative, inputWasAnswerByTouch>>

SlotType == "AppleSuite"
OtherSlotType == "Other"
MultiValueIntentName(slotType) == slotType \o "_MultiValueControlIntent"
GeneralControlIntent == "GeneralControlIntent"
YesIntent == "AMAZON.YesIntent"
NoIntent == "AMAZON.NoIntent"

\* listItemIDs of the control under test
ProductList == <<"AirPods", "iWatch", "iPhone", "iPad", "MacBook">>
PageSizeDefault == 3

\* the slot values a user utters in the model: two products and a novel string
InputIds == {"iPhone", "AirPods", "iPac"}

\* InputUtil.getMultiValueResolution: NLU marks a value as an entity-resolution
\* match when it is a value of the slot type
MultiValueSlot(id) == [slotValue |-> id, isEntityResolutionMatch |-> Includes(ProductList, id)]
SlotsOf(q) == [i \in 1..Len(q) |-> MultiValueSlot(q[i])]
\* the value lists of a request: up to MaxReq different ids in any order, and
\* one list naming the same id twice
SlotLists ==
    {SlotsOf(q) : q \in {r \in SeqsOf(InputIds, 1, MaxReq) :
                            \A i, j \in 1..Len(r) : i # j => r[i] # r[j]}}
    \cup {SlotsOf(<<"iPhone", "iPhone">>)}
\* the lists of one value
SingleSlotLists == {v \in SlotLists : Len(v) = 1}

\* default interaction model of the control
AddActions == {ActionSelect, ActionAdd}
RemoveActions == {ActionRemove, ActionDelete, ActionIgnore}
ClearActions == {ActionClear}
Targets == {TargetChoice, TargetIt}

NoValues == <<>>
MultiValueIntent(action, target, feedback, values, valueType) ==
    [kind |-> MultiValueIntentName(valueType), feedback |-> feedback, action |-> action,
     target |-> target, values |-> values, valueType |-> valueType]
GeneralIntent(action, target, feedback) ==
    [kind |-> GeneralControlIntent, feedback |-> feedback, action |-> action,
     target |-> target, values |-> NoValues, valueType |-> Undefined]
BareIntent(name) ==
    [kind |-> name, feedback |-> Undefined, action |-> Undefined,
     target |-> Undefined, values |-> NoValues, valueType |-> Undefined]

\* the inputs of a turn: every add and remove request over SlotLists, the bare
\* values, clear requests, bare yes and no, and inputs that fail one guard each
MVInputs ==
    {MultiValueIntent(a, Undefined, Undefined, v, SlotType) :
        a \in {ActionAdd, ActionRemove}, v \in SlotLists}
    \cup {MultiValueIntent(Undefined, Undefined, Undefined, v, SlotType) : v \in SingleSlotLists}
    \cup {MultiValueIntent(ActionAdd, TargetIt, Affirm, <<MultiValueSlot("iPhone")>>, SlotType),
          MultiValueIntent(ActionDelete, TargetChoice, Undefined, <<MultiValueSlot("iPhone")>>, SlotType),
          MultiValueIntent(ActionAdd, TargetDate, Undefined, <<MultiValueSlot("iPhone")>>, SlotType),
          MultiValueIntent(ActionAdd, Undefined, Undefined, <<MultiValueSlot("iPhone")>>, OtherSlotType),
          MultiValueIntent(ActionClear, Undefined, Undefined, <<MultiValueSlot("iPhone")>>, SlotType),
          MultiValueIntent(ActionRemove, Undefined, "other", <<MultiValueSlot("iPhone")>>, SlotType)}
    \cup {GeneralIntent(ActionClear, Undefined, Undefined),
          GeneralIntent(ActionClear, TargetIt, Disaffirm),
          GeneralIntent(ActionClear, TargetDate, Undefined),
          GeneralIntent(ActionSet, Undefined, Undefined),
          GeneralIntent(Undefined, Undefined, Affirm)}
    \cup {BareIntent(YesIntent), BareIntent(NoIntent)}

NoInput == BareIntent(Undefined)

\* lastInitiative?: LastInitiativeState
NoInitiative == [actName |-> Undefined, valueId |-> <<>>]
LastInitiativeState(actName, valueId) == [actName |-> actName, valueId |-> valueId]

\* spokenItemsPageIndex?: number
UndefinedIndex == -1

\* new MultiValueListControlState(): every field undefined.  value is kept as
\* a flag and a list, the list is meaningful only when valueDefined.
MultiValueListControlState ==
    [valueDefined |-> FALSE, value |-> <<>>, elicitationAction |-> Undefined,
     spokenItemsPageIndex |-> UndefinedIndex, lastInitiative |-> NoInitiative,
     confirmed |-> Undefined]

MultiValueListStateValue(id, erMatch) == [id |-> id, erMatch |-> erMatch]

\* a system act: its class name and payload (value ids, rendered reason,
\* choices of the active page)
Act(name, value, renderedReason, choices) ==
    [name |-> name, value |-> value, renderedReason |-> renderedReason, choices |-> choices]

(***************************************************************************)
(* Guard predicates (utils/InputUtil)                                      *)
(***************************************************************************)
isIntent(in, name) == in.kind = name
isBareYes(in) == in.kind = YesIntent
isBareNo(in) == in.kind = NoIntent
targetIsMatchOrUndefined(target, targets) == target = Undefined \/ target \in targets
valueTypeMatch(valueType, slotType) == valueType = slotType
valueStrDefined(values) == values # NoValues
feedbackIsMatchOrUndefined(feedback, feedbacks) == feedback = Undefined \/ feedback \in feedbacks
actionIsMatch(action, actions) == action # Undefined /\ action \in actions
actionIsMatchOrUndefined(action, actions) == action = Undefined \/ action \in actions
lastInitiativeMatch(lastInitiative, actName) ==
    lastInitiative # NoInitiative /\ lastInitiative.actName = actName

\* ControlResultBuilder.hasInitiativeAct
hasInitiativeAct(as) == \E i \in 1..Len(as) : as[i].name \in InitiativeActs

(***************************************************************************)
(* Validation functions a control can be configured with                   *)
(***************************************************************************)
ValidationTrue == [ok |-> TRUE, invalidValues |-> <<>>, renderedReason |-> Undefined]
MultiValueValidationResult(invalidValues, renderedReason) ==
    [ok |-> FALSE, invalidValues |-> invalidValues, renderedReason |-> renderedReason]

NotInProductList == "item is not available in the product list"
OutOfStock == "item is out of stock"

\* validateProducts of the e2e tests: rejects the ids outside the product list
validateProducts(values) ==
    LET invalidValues == Ids(SelectSeq(values, LAMBDA v : ~Includes(ProductList, v.id)))
    IN  IF Len(invalidValues) > 0
        THEN MultiValueValidationResult(invalidValues, NotInProductList)
        ELSE ValidationTrue

\* a second function of the same shape: rejects the one product out of stock
validateStock(values) ==
    LET invalidValues == Ids(SelectSeq(values, LAMBDA v : v.id = "AirPods"))
    IN  IF Len(invalidValues) > 0
        THEN MultiValueValidationResult(invalidValues, OutOfStock)
        ELSE ValidationTrue

NotAccepted == "the request is not accepted"

\* a function that fails without naming a value
validateNamesNone(values) == MultiValueValidationResult(<<>>, NotAccepted)

\* a function that fails naming a product whether or not it was proposed
validateNamesOther(values) == MultiValueValidationResult(<<"iWatch">>, NotAccepted)

SlotValidationFunction(name, values) ==
    IF name = "validateProducts" THEN validateProducts(values)
    ELSE IF name = "validateNamesNone" THEN validateNamesNone(values)
    ELSE IF name = "validateNamesOther" THEN validateNamesOther(values)
    ELSE validateStock(values)

\* props.validation: the default [], the function of the tests, and a list of two
ValidationProps == {<<>>, <<"validateProducts">>, <<"validateProducts", "validateStock">>}

\* validate(): the result of the first function that does not return true
RECURSIVE validateFrom(_, _, _)
validateFrom(listOfValidationFunc, i, values) ==
    IF i > Len(listOfValidationFunc) THEN ValidationTrue
    ELSE LET validationResult == SlotValidationFunction(listOfValidationFunc[i], values)
         IN  IF ~validationResult.ok THEN validationResult
             ELSE validateFrom(listOfValidationFunc, i + 1, values)

validate(p, values) == validateFrom(p.validation, 1, values)

(***************************************************************************)
(* Pagination                                                              *)
(***************************************************************************)
\* getPageIndex(): an undefined cursor is stored as 0
getPageIndex(st) ==
    IF st.spokenItemsPageIndex = UndefinedIndex THEN 0 ELSE st.spokenItemsPageIndex

\* the page taken as the first pageSize elements up to the cursor's page end
getChoicesFromActivePage_endIsSize(st, pageSize, allChoices) ==
    LET start == getPageIndex(st)
        end == pageSize
    IN  Slice(allChoices, start, end)

getChoicesFromActivePage(st, pageSize, allChoices) ==
    LET start == getPageIndex(st)
        end == start + pageSize
    IN  Slice(allChoices, start, end)

(***************************************************************************)
(* Handlers.  A handler maps the state and the acts so far to the new      *)
(* state and acts; threw marks an exception leaving the handler.           *)
(***************************************************************************)
Result(st, as) == [state |-> st, acts |-> as, threw |-> FALSE]
Thrown(st, as) == [state |-> st, acts |-> as, threw |-> TRUE]

\* this.state.value!.map(({ id }) => id); callers check valueDefined first
\* where the code would raise a TypeError on undefined
getSlotIds(st) == Ids(st.value)

generateSlotValues(values) ==
    [i \in 1..Len(values) |->
        MultiValueListStateValue(values[i].slotValue, values[i].isEntityResolutionMatch)]

addValue(st, value) ==
    IF st.valueDefined
    THEN [st EXCEPT !.value = Append(@, value)]
    ELSE [st EXCEPT !.valueDefined = TRUE, !.value = <<value>>]

\* values.forEach((value) => this.addValue(...))
RECURSIVE addValues(_, _, _)
addValues(st, values, i) ==
    IF i > Len(values) THEN st
    ELSE addValues(addValue(st, MultiValueListStateValue(values[i].id, values[i].erMatch)),
                   values, i + 1)

askElicitationQuestion(st, p, as, elicitationAction) ==
    LET st1 == [st EXCEPT !.elicitationAction = elicitationAction,
                          !.spokenItemsPageIndex = getPageIndex(st)]
        allChoices == p.listItemIDs
    IN  IF elicitationAction = ActionAdd
        THEN Result(st1, Append(as,
                 Act(RequestValueByListAct, <<>>, Undefined,
                     getChoicesFromActivePage(st1, p.pageSize, allChoices))))
        ELSE IF elicitationAction = ActionRemove
        THEN IF ~st1.valueDefined THEN Thrown(st1, as)
             ELSE Result(st1, Append(as,
                     Act(RequestRemovedValueByListAct, <<>>, Undefined,
                         getChoicesFromActivePage(st1, p.pageSize, getSlotIds(st1)))))
        ELSE Thrown(st1, as)

isAddWithValue(p, in) ==
    /\ isIntent(in, MultiValueIntentName(p.slotType))
    /\ targetIsMatchOrUndefined(in.target, Targets)
    /\ valueTypeMatch(in.valueType, p.slotType)
    /\ valueStrDefined(in.values)
    /\ feedbackIsMatchOrUndefined(in.feedback, {Affirm, Disaffirm})
    /\ actionIsMatchOrUndefined(in.action, AddActions)

\* handleAddWithValue with the filter inverted: the rejected values are kept
handleAddWithValue_keepsInvalid(st, p, in, as) ==
    LET proposed == generateSlotValues(in.values)
        validationResult == validate(p, proposed)
        values == IF ~validationResult.ok
                  THEN SelectSeq(proposed,
                           LAMBDA v : Includes(validationResult.invalidValues, v.id))
                  ELSE proposed
        valueIds == Ids(values)
        st1 == addValues(st, values, 1)
        as1 == IF Len(valueIds) > 0
               THEN Append(as, Act(ValueAddedAct, valueIds, Undefined, <<>>))
               ELSE as
        as2 == IF ~validationResult.ok
               THEN Append(as1, Act(InvalidValueAct, validationResult.invalidValues,
                                    validationResult.renderedReason, <<>>))
               ELSE as1
    IN  Result(st1, as2)

handleAddWithValue(st, p, in, as) ==
    LET slotValues == in.values
        proposed == generateSlotValues(slotValues)
        validationResult == validate(p, proposed)
        values == IF ~validationResult.ok
                  THEN FilterNotIn(proposed, validationResult.invalidValues)
                  ELSE proposed
        valueIds == Ids(values)
        st1 == addValues(st, values, 1)
        as1 == IF Len(valueIds) > 0
               THEN Append(as, Act(ValueAddedAct, valueIds, Undefined, <<>>))
               ELSE as
        as2 == IF ~validationResult.ok
               THEN Append(as1, Act(InvalidValueAct, validationResult.invalidValues,
                                    validationResult.renderedReason, <<>>))
               ELSE as1
    IN  Result(st1, as2)

isRemoveWithValue(p, in) ==
    /\ isIntent(in, MultiValueIntentName(p.slotType))
    /\ targetIsMatchOrUndefined(in.target, Targets)
    /\ valueTypeMatch(in.valueType, p.slotType)
    /\ valueStrDefined(in.values)
    /\ feedbackIsMatchOrUndefined(in.feedback, {Affirm, Disaffirm})
    /\ actionIsMatch(in.action, RemoveActions)

\* the loop skipping an id that is not held instead of stopping at it
RECURSIVE removeLoop_skips(_, _, _, _)
removeLoop_skips(stateValues, valueIds, i, deletedValues) ==
    IF i > Len(valueIds)
    THEN [stateValues |-> stateValues, deletedValues |-> deletedValues, missing |-> Undefined]
    ELSE LET value == valueIds[i]
             removeIndex == IndexOf(Ids(stateValues), value)
         IN  IF removeIndex = -1
             THEN [removeLoop_skips(stateValues, valueIds, i + 1, deletedValues)
                      EXCEPT !.missing = value]
             ELSE removeLoop_skips(Splice1(stateValues, removeIndex), valueIds, i + 1,
                                   Append(deletedValues, value))

\* the loop looking the id up from the end of the held list (lastIndexOf)
RECURSIVE removeLoop_lastIndex(_, _, _, _)
removeLoop_lastIndex(stateValues, valueIds, i, deletedValues) ==
    IF i > Len(valueIds)
    THEN [stateValues |-> stateValues, deletedValues |-> deletedValues, missing |-> Undefined]
    ELSE LET value == valueIds[i]
             ids == Ids(stateValues)
             removeIndex == IF Includes(ids, value)
                            THEN (CHOOSE k \in 1..Len(ids) :
                                    /\ ids[k] = value
                                    /\ \A j \in (k + 1)..Len(ids) : ids[j] # value) - 1
                            ELSE -1
         IN  IF removeIndex = -1
             THEN [stateValues |-> stateValues, deletedValues |-> deletedValues,
                   missing |-> value]
             ELSE removeLoop_lastIndex(Splice1(stateValues, removeIndex), valueIds, i + 1,
                                       Append(deletedValues, value))

\* the for loop of handleRemoveWithValue from position i on: stateValues is the
\* array held in this.state.value, spliced in place
RECURSIVE removeLoop(_, _, _, _)
removeLoop(stateValues, valueIds, i, deletedValues) ==
    IF i > Len(valueIds)
    THEN [stateValues |-> stateValues, deletedValues |-> deletedValues, missing |-> Undefined]
    ELSE LET value == valueIds[i]
             removeIndex == IndexOf(Ids(stateValues), value)
         IN  IF removeIndex = -1
             THEN [stateValues |-> stateValues, deletedValues |-> deletedValues,
                   missing |-> value]
             ELSE removeLoop(Splice1(stateValues, removeIndex), valueIds, i + 1,
                             Append(deletedValues, value))

handleRemoveWithValue(st, p, in, as) ==
    LET valueIds == [i \in 1..Len(in.values) |-> in.values[i].slotValue]
    IN  IF ~st.valueDefined
        THEN \* stateValues is undefined: stateValues.map raises a TypeError
             IF Len(valueIds) > 0 THEN Thrown(st, as)
             ELSE Result(st, Append(as, Act(ValueRemovedAct, <<>>, Undefined, <<>>)))
        ELSE LET loop == removeLoop(st.value, valueIds, 1, <<>>)
                 st1 == [st EXCEPT !.value = loop.stateValues]
             IN  IF loop.missing # Undefined
                 THEN askElicitationQuestion(st1, p,
                          Append(as, Act(InvalidValueAct, <<loop.missing>>, Undefined, <<>>)),
                          ActionRemove)
                 ELSE Result(st1, Append(as,
                          Act(ValueRemovedAct, loop.deletedValues, Undefined, <<>>)))

isConfirmationAffirmed(st, in) ==
    /\ isBareYes(in)
    /\ lastInitiativeMatch(st.lastInitiative, ConfirmValueAct)

\* handleConfirmationAffirmed leaving the answered request in lastInitiative
handleConfirmationAffirmed_keepsInitiative(st, p, in, as) ==
    LET valueId == st.lastInitiative.valueId
    IN  Result([st EXCEPT !.confirmed = "true"],
               Append(as, Act(ValueConfirmedAct, valueId, Undefined, <<>>)))

handleConfirmationAffirmed(st, p, in, as) ==
    LET valueId == st.lastInitiative.valueId
    IN  Result([st EXCEPT !.lastInitiative = NoInitiative, !.confirmed = "true"],
               Append(as, Act(ValueConfirmedAct, valueId, Undefined, <<>>)))

isConfirmationDisaffirmed(st, in) ==
    /\ isBareNo(in)
    /\ lastInitiativeMatch(st.lastInitiative, ConfirmValueAct)

handleConfirmationDisaffirmed(st, p, in, as) ==
    Result([st EXCEPT !.lastInitiative = NoInitiative],
           Append(as, Act(SuggestActionAct, <<>>, Undefined, <<>>)))

isClearValue(p, in) ==
    /\ isIntent(in, GeneralControlIntent)
    /\ feedbackIsMatchOrUndefined(in.feedback, {Affirm, Disaffirm})
    /\ actionIsMatch(in.action, ClearActions)
    /\ targetIsMatchOrUndefined(in.target, Targets)

\* clear(): this.state = new MultiValueListControlState()
clear(st) == MultiValueListControlState

handleClearValue(st, p, in, as) ==
    IF ~st.valueDefined
    THEN \* getSlotIds() maps over undefined: TypeError before clear() runs
         Thrown(st, as)
    ELSE LET valueIds == getSlotIds(st)
         IN  Result(clear(st), Append(as, Act(ValueClearedAct, valueIds, Undefined, <<>>)))

\* canHandle: each guard that passes stores its handler in this.handleFunc, the
\* || chain stops at the first guard that passes
canHandleFunc(st, p, in) ==
    IF isAddWithValue(p, in) THEN "handleAddWithValue"
    ELSE IF isRemoveWithValue(p, in) THEN "handleRemoveWithValue"
    ELSE IF isClearValue(p, in) THEN "handleClearValue"
    ELSE IF isConfirmationAffirmed(st, in) THEN "handleConfirmationAffirmed"
    ELSE IF isConfirmationDisaffirmed(st, in) THEN "handleConfirmationDisaffirmed"
    ELSE Undefined

runHandleFunc(f, st, p, in, as) ==
    IF f = "handleAddWithValue" THEN handleAddWithValue(st, p, in, as)
    ELSE IF f = "handleRemoveWithValue" THEN handleRemoveWithValue(st, p, in, as)
    ELSE IF f = "handleClearValue" THEN handleClearValue(st, p, in, as)
    ELSE IF f = "handleConfirmationAffirmed" THEN handleConfirmationAffirmed(st, p, in, as)
    ELSE handleConfirmationDisaffirmed(st, p, in, as)

(***************************************************************************)
(* Initiative                                                              *)
(***************************************************************************)
\* the confirmation wanted also for a value already confirmed
wantsToConfirmValue_evenConfirmed(st, p) ==
    /\ p.confirmationRequired
    /\ st.valueDefined
    /\ Len(st.value) # 0

wantsToConfirmValue(st, p) ==
    /\ p.confirmationRequired
    /\ st.valueDefined
    /\ Len(st.value) # 0
    /\ st.confirmed # "true"

\* confirmValue asking about the ids of the first act of the turn only
confirmValue_firstAct(st, p, as) ==
    LET value == IF as # <<>> THEN as[1].value ELSE getSlotIds(st)
    IN  Result([st EXCEPT !.lastInitiative = LastInitiativeState(ConfirmValueAct, value)],
               Append(as, Act(ConfirmValueAct, value, Undefined, <<>>)))

confirmValue(st, p, as) ==
    LET value == getSlotIds(st)
    IN  Result([st EXCEPT !.lastInitiative = LastInitiativeState(ConfirmValueAct, value)],
               Append(as, Act(ConfirmValueAct, value, Undefined, <<>>)))

wantsToElicitValue(st, p) ==
    ~st.valueDefined /\ p.required

elicitValue(st, p, as) == askElicitationQuestion(st, p, as, ActionAdd)

\* canTakeInitiative: the function the || chain leaves in this.initiativeFunc
\* (unchanged when neither guard passes)
canTakeInitiativeFunc(st, p, old) ==
    IF wantsToConfirmValue(st, p) THEN "confirmValue"
    ELSE IF wantsToElicitValue(st, p) THEN "elicitValue"
    ELSE old

canTakeInitiative(st, p) == wantsToConfirmValue(st, p) \/ wantsToElicitValue(st, p)

runInitiativeFunc(f, st, p, as) ==
    IF f = "confirmValue" THEN confirmValue(st, p, as) ELSE elicitValue(st, p, as)

(***************************************************************************)
(* The turn of a MultiValueListControl                                     *)
(***************************************************************************)
\* mergeWithDefaultProps: the defaults overridden by the constructor argument
mergeWithDefaultProps(c) ==
    [slotType |-> SlotType, required |-> c.required, validation |-> c.validation,
     pageSize |-> PageSizeDefault, listItemIDs |-> ProductList,
     confirmationRequired |-> c.confirmationRequired]

\* the name of the last initiative act of as, old when as has none
lastInitiativeActName(as, old) ==
    IF hasInitiativeAct(as)
    THEN as[CHOOSE i \in 1..Len(as) :
                /\ as[i].name \in InitiativeActs
                /\ \A j \in (i + 1)..Len(as) : as[j].name \notin InitiativeActs].name
    ELSE old

TurnOver ==
    \/ phase \in {"threw", "canInitFalse", "done"}
    \/ phase = "handled" /\ hasInitiativeAct(acts)

Init ==
    /\ cfg \in [required : BOOLEAN, confirmationRequired : BOOLEAN, validation : ValidationProps]
    /\ props = mergeWithDefaultProps(cfg)
    /\ state = MultiValueListControlState
    /\ input = NoInput
    /\ handleFunc = Undefined
    /\ initiativeFunc = Undefined
    /\ acts = <<>>
    /\ phase = "idle"
    /\ pre = MultiValueListControlState
    /\ emitted = Undefined
    /\ prevInitiative = Undefined
    /\ inputWasAnswerByTouch = FALSE

\* the runtime receives a request and hands its input to the control
NewTurn(in) ==
    /\ phase = "idle"
    /\ isAddWithValue(props, in) => Len(state.value) + Len(in.values) <= MaxHeld
    /\ input' = in
    /\ phase' = "start"
    /\ UNCHANGED <<inputWasAnswerByTouch, cfg, props, state, handleFunc, initiativeFunc, acts, pre, emitted,
                   prevInitiative>>

\* the runtime sends the response and persists this.state; the control of the
\* next request is constructed anew and its state rehydrated
EndTurn ==
    /\ TurnOver
    /\ input' = NoInput
    /\ props' = mergeWithDefaultProps(cfg)
    /\ handleFunc' = Undefined
    /\ initiativeFunc' = Undefined
    /\ acts' = <<>>
    /\ pre' = state
    /\ phase' = "idle"
    /\ prevInitiative' = IF phase = "threw" THEN Undefined
                         ELSE lastInitiativeActName(acts, Undefined)
    /\ UNCHANGED <<inputWasAnswerByTouch, cfg, state, emitted>>

CanHandle ==
    /\ phase = "start"
    /\ LET f == canHandleFunc(state, props, input)
       IN  /\ handleFunc' = IF f = Undefined THEN handleFunc ELSE f
           /\ phase' = IF f = Undefined THEN "canHandleFalse" ELSE "canHandleTrue"
    /\ UNCHANGED <<inputWasAnswerByTouch, cfg, props, state, input, initiativeFunc, acts, pre, emitted, prevInitiative>>

\* an Error leaves the method before it has assigned anything; the runtime
\* does not catch it and the request fails
ThrowsAtOnce ==
    /\ phase' = "fatal"
    /\ UNCHANGED <<cfg, props, state, input, handleFunc, initiativeFunc, acts, pre, emitted,
                   prevInitiative, inputWasAnswerByTouch>>

\* handle() taking the initiative whether or not the handler has emitted an
\* initiative act
HandleCall_alwaysTakesInitiative ==
    /\ handleFunc # Undefined
    /\ LET p1 == [props EXCEPT !.required = TRUE]
           r == runHandleFunc(handleFunc, state, p1, input, acts)
           takes == ~r.threw /\ canTakeInitiative(r.state, p1)
           f == IF r.threw THEN initiativeFunc
                ELSE canTakeInitiativeFunc(r.state, p1, initiativeFunc)
           r2 == IF takes THEN runInitiativeFunc(f, r.state, p1, r.acts) ELSE r
       IN  /\ props' = p1
           /\ initiativeFunc' = f
           /\ state' = r2.state
           /\ acts' = r2.acts
           /\ phase' = IF r2.threw THEN "threw" ELSE "handled"
           /\ emitted' = lastInitiativeActName(r2.acts, emitted)
    /\ UNCHANGED <<inputWasAnswerByTouch, cfg, input, handleFunc, pre, prevInitiative>>

\* handle(): throws when canHandle has stored no handler, else runs it and
\* takes the initiative when the result holds no initiative act
HandleCall ==
    IF handleFunc = Undefined
    THEN ThrowsAtOnce
    ELSE /\ LET p1 == [props EXCEPT !.required = TRUE]
                r == runHandleFunc(handleFunc, state, p1, input, acts)
                takes == ~r.threw /\ ~hasInitiativeAct(r.acts) /\ canTakeInitiative(r.state, p1)
                f == IF r.threw THEN initiativeFunc
                     ELSE IF hasInitiativeAct(r.acts) THEN initiativeFunc
                     ELSE canTakeInitiativeFunc(r.state, p1, initiativeFunc)
                r2 == IF takes THEN runInitiativeFunc(f, r.state, p1, r.acts) ELSE r
            IN  /\ props' = p1
                /\ initiativeFunc' = f
                /\ state' = r2.state
                /\ acts' = r2.acts
                /\ phase' = IF r2.threw THEN "threw" ELSE "handled"
                /\ emitted' = lastInitiativeActName(r2.acts, emitted)
         /\ UNCHANGED <<inputWasAnswerByTouch, cfg, input, handleFunc, pre, prevInitiative>>

Handle ==
    /\ phase = "canHandleTrue"
    /\ HandleCall

\* canTakeInitiative storing the page cursor the elicitation would use
CanTakeInitiative_storesCursor ==
    /\ \/ phase = "canHandleFalse"
       \/ phase = "handled" /\ ~hasInitiativeAct(acts)
    /\ initiativeFunc' = canTakeInitiativeFunc(state, props, initiativeFunc)
    /\ phase' = IF canTakeInitiative(state, props) THEN "canInitTrue" ELSE "canInitFalse"
    /\ state' = [state EXCEPT !.spokenItemsPageIndex = getPageIndex(state)]
    /\ UNCHANGED <<inputWasAnswerByTouch, cfg, props, input, handleFunc, acts, pre, emitted, prevInitiative>>

CanTakeInitiative ==
    /\ \/ phase = "canHandleFalse"
       \/ phase = "handled" /\ ~hasInitiativeAct(acts)
    /\ initiativeFunc' = canTakeInitiativeFunc(state, props, initiativeFunc)
    /\ phase' = IF canTakeInitiative(state, props) THEN "canInitTrue" ELSE "canInitFalse"
    /\ UNCHANGED <<inputWasAnswerByTouch, cfg, props, state, input, handleFunc, acts, pre, emitted, prevInitiative>>

\* takeInitiative(): throws when canTakeInitiative has stored no function
TakeInitiativeCall ==
    IF initiativeFunc = Undefined
    THEN ThrowsAtOnce
    ELSE /\ LET r == runInitiativeFunc(initiativeFunc, state, props, acts)
            IN  /\ state' = r.state
                /\ acts' = r.acts
                /\ phase' = IF r.threw THEN "threw" ELSE "done"
                /\ emitted' = lastInitiativeActName(r.acts, emitted)
         /\ UNCHANGED <<inputWasAnswerByTouch, cfg, props, input, handleFunc, initiativeFunc, pre,
                        prevInitiative>>

TakeInitiative ==
    /\ phase = "canInitTrue"
    /\ TakeInitiativeCall

Next ==
    \/ \E in \in MVInputs : NewTurn(in)
    \/ CanHandle
    \/ Handle
    \/ CanTakeInitiative
    \/ TakeInitiative
    \/ EndTurn

Spec == Init /\ [][Next]_mvVars

\* the same control configured with a validation function whose failure
\* result is not derived from the proposed values
InitAnyValidation ==
    /\ cfg \in [required : {TRUE}, confirmationRequired : BOOLEAN,
                validation : {<<"validateNamesNone">>, <<"validateNamesOther">>}]
    /\ props = mergeWithDefaultProps(cfg)
    /\ state = MultiValueListControlState
    /\ input = NoInput
    /\ handleFunc = Undefined
    /\ initiativeFunc = Undefined
    /\ acts = <<>>
    /\ phase = "idle"
    /\ pre = MultiValueListControlState
    /\ emitted = Undefined
    /\ prevInitiative = Undefined
    /\ inputWasAnswerByTouch = FALSE

SpecAnyValidation == InitAnyValidation /\ [][Next]_mvVars

(***************************************************************************)
(* Helpers of the properties                                               *)
(***************************************************************************)
Count(s, x) == Cardinality({i \in 1..Len(s) : s[i] = x})
ActsNamed(as, name) == SelectSeq(as, LAMBDA a : a.name = name)
ContentActs(as) == SelectSeq(as, LAMBDA a : a.name \notin InitiativeActs)
InitiativeActsOf(as) == SelectSeq(as, LAMBDA a : a.name \in InitiativeActs)
HeldBefore == IF pre.valueDefined THEN pre.value ELSE <<>>
HeldNow == IF state.valueDefined THEN state.value ELSE <<>>
\* s is t with some elements left out
RECURSIVE IsSubsequence(_, _)
IsSubsequence(s, t) ==
    IF s = <<>> THEN TRUE
    ELSE IF t = <<>> THEN FALSE
    ELSE IF Head(s) = Head(t) THEN IsSubsequence(Tail(s), Tail(t))
    ELSE IsSubsequence(s, Tail(t))

AddTurnHandled == phase = "handled" /\ handleFunc = "handleAddWithValue"
RemoveTurnHandled == phase = "handled" /\ handleFunc = "handleRemoveWithValue"

(***************************************************************************)
(* C1: an add request appends to the held list exactly the proposed values *)
(* the validation result does not name as invalid, in request order; a     *)
(* ValueAddedAct listing exactly those ids is emitted iff one was          *)
(* accepted, an InvalidValueAct listing exactly the rejected ids with the  *)
(* validator's reason iff validation failed; the lists are never merged    *)
(* or swapped.                                                             *)
(***************************************************************************)
C1_Proposed == generateSlotValues(input.values)
C1_Validation == validate(props, C1_Proposed)
C1_Accepted ==
    SelectSeq(C1_Proposed, LAMBDA v : ~Includes(C1_Validation.invalidValues, v.id))

C1_AddSplitsValidAndInvalid ==
    (AddTurnHandled /\ Range(C1_Validation.invalidValues) \subseteq Range(Ids(C1_Proposed)))
    => /\ HeldNow = HeldBefore \o C1_Accepted
       /\ state.valueDefined = (pre.valueDefined \/ C1_Accepted # <<>>)
       /\ ActsNamed(acts, ValueAddedAct) =
            IF C1_Accepted # <<>>
            THEN <<Act(ValueAddedAct, Ids(C1_Accepted), Undefined, <<>>)>> ELSE <<>>
       /\ ActsNamed(acts, InvalidValueAct) =
            IF ~C1_Validation.ok
            THEN <<Act(InvalidValueAct, C1_Validation.invalidValues,
                       C1_Validation.renderedReason, <<>>)>>
            ELSE <<>>
       /\ ContentActs(acts) = ActsNamed(acts, ValueAddedAct) \o ActsNamed(acts, InvalidValueAct)

\* add [iPhone, iPac] under validateProducts: both acts in one turn
C1_Witness ==
    /\ AddTurnHandled
    /\ Ids(C1_Proposed) = <<"iPhone", "iPac">>
    /\ ActsNamed(acts, ValueAddedAct) # <<>>
    /\ ActsNamed(acts, InvalidValueAct) # <<>>
    /\ ActsNamed(acts, InvalidValueAct)[1].value = <<"iPac">>
    /\ pre.valueDefined

(***************************************************************************)
(* C2: a remove request is processed in request order: each id still held  *)
(* is removed; at the first id not held an InvalidValueAct for that id and *)
(* a RequestRemovedValueByListAct are emitted and processing stops, so the *)
(* ids after it stay held.  (Stated for a control whose value list exists; *)
(* the never-held control is the subject of C25.)                          *)
(***************************************************************************)
C2_Request == [i \in 1..Len(input.values) |-> input.values[i].slotValue]
\* position of the first requested id of which no copy is left, 0 if none
C2_Missing(held, req) ==
    LET gone(i) == Count(held, req[i]) <= Count(SubSeq(req, 1, i - 1), req[i])
    IN  IF \E i \in 1..Len(req) : gone(i)
        THEN CHOOSE i \in 1..Len(req) : gone(i) /\ \A j \in 1..(i - 1) : ~gone(j)
        ELSE 0
C2_Processed(held, req) ==
    IF C2_Missing(held, req) = 0 THEN req ELSE SubSeq(req, 1, C2_Missing(held, req) - 1)

C2_RemoveStopsAtFirstMissing ==
    (RemoveTurnHandled /\ pre.valueDefined)
    => LET held == Ids(pre.value)
           m == C2_Missing(held, C2_Request)
           done == C2_Processed(held, C2_Request)
       IN  /\ IsSubsequence(state.value, pre.value)
           /\ \A x \in Range(held) \cup Range(C2_Request) :
                Count(Ids(state.value), x) = Count(held, x) - Count(done, x)
           /\ m # 0 =>
                /\ ActsNamed(acts, InvalidValueAct) =
                     <<Act(InvalidValueAct, <<C2_Request[m]>>, Undefined, <<>>)>>
                /\ Len(acts) >= 2
                /\ acts[Len(acts)].name = RequestRemovedValueByListAct
                /\ acts[Len(acts) - 1].name = InvalidValueAct
           /\ m = 0 => ActsNamed(acts, InvalidValueAct) = <<>>

\* held [iPhone, AirPods], request [AirPods, iPac]: AirPods removed, re-elicit
C2_Witness ==
    /\ RemoveTurnHandled
    /\ Ids(pre.value) = <<"iPhone", "AirPods">>
    /\ C2_Request = <<"AirPods", "iPac">>
    /\ Ids(state.value) = <<"iPhone">>
    /\ acts[Len(acts)].name = RequestRemovedValueByListAct

\* held [iPhone, AirPods], request [iPac, AirPods]: AirPods stays held
C2_WitnessOrder ==
    /\ RemoveTurnHandled
    /\ Ids(pre.value) = <<"iPhone", "AirPods">>
    /\ C2_Request = <<"iPac", "AirPods">>
    /\ Ids(state.value) = <<"iPhone", "AirPods">>

(***************************************************************************)
(* C3: confirmation round trip.  With confirmation required, a non-empty   *)
(* held list and confirmed not true, the initiative emits ConfirmValueAct  *)
(* and records lastInitiative = {ConfirmValueAct, held ids}.  A bare yes   *)
(* in the next turn sets confirmed and emits ValueConfirmedAct, a bare no  *)
(* emits SuggestActionAct and leaves confirmed not true; both clear        *)
(* lastInitiative and leave the held values as they were.                  *)
(***************************************************************************)
C3_WantsConfirmation ==
    /\ cfg.confirmationRequired
    /\ Len(HeldNow) > 0
    /\ state.confirmed # "true"
C3_ConfirmEmitted ==
    /\ phase \in {"handled", "done"}
    /\ acts # <<>>
    /\ acts[Len(acts)] = Act(ConfirmValueAct, Ids(state.value), Undefined, <<>>)
    /\ state.lastInitiative = LastInitiativeState(ConfirmValueAct, Ids(state.value))
C3_AnsweredConfirmation(guard) ==
    /\ phase \in {"canHandleTrue", "canHandleFalse", "handled", "threw"}
    /\ prevInitiative = ConfirmValueAct
    /\ guard

C3_ConfirmationRoundTrip ==
    /\ (/\ phase \in {"handled", "canInitTrue", "canInitFalse", "done"}
        /\ C3_WantsConfirmation
        /\ \A i \in 1..Len(acts) : acts[i].name \in InitiativeActs => acts[i].name = ConfirmValueAct)
       => \/ C3_ConfirmEmitted
          \/ phase = "canInitTrue" /\ initiativeFunc = "confirmValue"
    /\ (phase \in {"handled", "done"} /\ ActsNamed(acts, ConfirmValueAct) # <<>>)
       => C3_ConfirmEmitted
    /\ C3_AnsweredConfirmation(isBareYes(input))
       => /\ handleFunc = "handleConfirmationAffirmed"
          /\ phase \in {"canHandleTrue", "handled"}
          /\ phase = "handled"
             => /\ state.confirmed = "true"
                /\ acts = <<Act(ValueConfirmedAct, Ids(pre.value), Undefined, <<>>)>>
                /\ state.lastInitiative = NoInitiative
                /\ state.valueDefined /\ state.value = pre.value
    /\ C3_AnsweredConfirmation(isBareNo(input))
       => /\ handleFunc = "handleConfirmationDisaffirmed"
          /\ phase \in {"canHandleTrue", "handled"}
          /\ phase = "handled"
             => /\ state.confirmed # "true"
                /\ acts = <<Act(SuggestActionAct, <<>>, Undefined, <<>>)>>
                /\ state.lastInitiative = NoInitiative
                /\ state.valueDefined /\ state.value = pre.value

\* the yes after "Is that all?" has been handled
C3_Witness ==
    /\ phase = "handled"
    /\ prevInitiative = ConfirmValueAct
    /\ isBareYes(input)
    /\ state.confirmed = "true"
    /\ Ids(state.value) = <<"iPhone", "AirPods">>
    /\ ActsNamed(acts, ValueConfirmedAct) # <<>>

\* the no after "Is that all?" has been handled
C3_WitnessNo ==
    /\ phase = "handled"
    /\ prevInitiative = ConfirmValueAct
    /\ isBareNo(input)
    /\ Len(state.value) > 0
    /\ ActsNamed(acts, SuggestActionAct) # <<>>

(***************************************************************************)
(* C4: a bare yes or no is taken as the answer to a confirmation only when *)
(* the most recent initiative act the control emitted was a                *)
(* ConfirmValueAct; after a later RequestRemovedValueByListAct,            *)
(* RequestValueByListAct or SuggestActionAct it is not, and confirmed is   *)
(* not set.                                                                *)
(***************************************************************************)
C4_YesNoOnlyAfterConfirmRequest ==
    /\ (phase = "canHandleTrue"
        /\ handleFunc \in {"handleConfirmationAffirmed", "handleConfirmationDisaffirmed"})
       => emitted = ConfirmValueAct
    /\ (phase = "handled" /\ isBareYes(input) /\ prevInitiative # ConfirmValueAct)
       => state.confirmed = pre.confirmed

(***************************************************************************)
(* C5: after a handled add request the content acts of the handler are     *)
(* followed in the same turn by one initiative act: a ConfirmValueAct over *)
(* exactly the held ids when a value is held, confirmation is required and *)
(* confirmed is not true; a RequestValueByListAct naming the first page of *)
(* the candidates when no value has been held.                             *)
(***************************************************************************)
C5_FirstPage == SubSeq(ProductList, 1, PageSizeDefault)

C5_WitnessElicit ==
    /\ AddTurnHandled
    /\ ~state.valueDefined
    /\ acts = <<Act(InvalidValueAct, <<"iPac">>, NotInProductList, <<>>),
                Act(RequestValueByListAct, <<>>, Undefined, <<"AirPods", "iWatch", "iPhone">>)>>

(***************************************************************************)
(* C6: a handled clear request succeeds in every control state, also when  *)
(* no value has ever been held: it does not throw, leaves value, confirmed *)
(* and lastInitiative reset and emits a ValueClearedAct listing exactly    *)
(* the ids held before.  (elicitationAction is set again by the            *)
(* elicitation that follows the clear in the same turn.)                   *)
(***************************************************************************)
C6_ClearAlwaysSucceeds ==
    (phase \in {"handled", "threw"} /\ handleFunc = "handleClearValue")
    => /\ phase = "handled"
       /\ ~state.valueDefined
       /\ state.confirmed = Undefined
       /\ state.lastInitiative = NoInitiative
       /\ acts # <<>>
       /\ acts[1] = Act(ValueClearedAct, Ids(HeldBefore), Undefined, <<>>)

(***************************************************************************)
(* C7: with required = false no turn ends with a RequestValueByListAct,    *)
(* also not a handled add whose values are all rejected or a handled clear *)
(***************************************************************************)
C7_NoElicitationUnlessRequired ==
    ~cfg.required => ActsNamed(acts, RequestValueByListAct) = <<>>

(***************************************************************************)
(* C8: whenever the control is required and holds no value, before any     *)
(* value was added as well as after remove requests emptied the list,      *)
(* canTakeInitiative is true and the initiative is the elicitation.        *)
(***************************************************************************)
C8_ElicitsWheneverEmpty ==
    (phase \in {"canInitTrue", "canInitFalse"} /\ cfg.required /\ Len(HeldNow) = 0)
    => (phase = "canInitTrue" /\ initiativeFunc = "elicitValue")

(***************************************************************************)
(* Pagination on its own: an elicitation over every candidate list, page   *)
(* size and rehydrated page cursor within the bounds                       *)
(***************************************************************************)
\* the candidate lists: the product list cut after 0..5 items
CandidateLists == {SubSeq(ProductList, 1, n) : n \in 0..Len(ProductList)}

InitPage ==
    /\ cfg = [required |-> TRUE, confirmationRequired |-> FALSE, validation |-> <<>>]
    /\ \E pageSize \in 1..MaxPageSize, listItemIDs \in CandidateLists :
         props = [mergeWithDefaultProps(cfg) EXCEPT !.pageSize = pageSize,
                                                    !.listItemIDs = listItemIDs]
    /\ \E cursor \in {UndefinedIndex} \cup 0..MaxCursor :
         state = [MultiValueListControlState EXCEPT !.spokenItemsPageIndex = cursor]
    /\ input = NoInput
    /\ handleFunc = Undefined
    /\ initiativeFunc = "elicitValue"
    /\ acts = <<>>
    /\ phase = "canInitTrue"
    /\ pre = state
    /\ emitted = Undefined
    /\ prevInitiative = Undefined
    /\ inputWasAnswerByTouch = FALSE

NextPage == TakeInitiative

SpecPage == InitPage /\ [][NextPage]_mvVars

(***************************************************************************)
(* C9: the active page of an elicitation is the contiguous slice           *)
(* [cursor, cursor + pageSize) of the candidate list, an undefined cursor  *)
(* counting as 0: shorter at the end of the list, empty at or past the     *)
(* end, never padded and never an error.                                   *)
(***************************************************************************)
C9_Cursor == IF pre.spokenItemsPageIndex = UndefinedIndex THEN 0 ELSE pre.spokenItemsPageIndex
C9_PageLength ==
    LET len == Len(props.listItemIDs)
        end == IF C9_Cursor + props.pageSize < len THEN C9_Cursor + props.pageSize ELSE len
    IN  IF end > C9_Cursor THEN end - C9_Cursor ELSE 0

C9_ActivePageIsSlice ==
    /\ phase # "threw"
    /\ phase = "done" => ActsNamed(acts, RequestValueByListAct) # <<>>
    /\ \A i \in 1..Len(acts) :
         acts[i].name = RequestValueByListAct
         => /\ Len(acts[i].choices) = C9_PageLength
            /\ \A k \in 1..C9_PageLength : acts[i].choices[k] = props.listItemIDs[C9_Cursor + k]

\* page size 3, cursor 4, five candidates: the page is the last element
C9_Witness ==
    /\ phase = "done"
    /\ props.pageSize = 3
    /\ pre.spokenItemsPageIndex = 4
    /\ props.listItemIDs = ProductList
    /\ acts = <<Act(RequestValueByListAct, <<>>, Undefined, <<"MacBook">>)>>

\* page size 3, cursor undefined, five candidates: the first three
C9_WitnessFirstPage ==
    /\ phase = "done"
    /\ props.pageSize = 3
    /\ pre.spokenItemsPageIndex = UndefinedIndex
    /\ props.listItemIDs = ProductList
    /\ acts = <<Act(RequestValueByListAct, <<>>, Undefined, <<"AirPods", "iWatch", "iPhone">>)>>

(***************************************************************************)
(* QuestionnaireControl                                                    *)
(***************************************************************************)

QuestionnaireId == "question"
QuestionnaireSlotType == "YesNoMaybe"
QuestionnaireFilteredSlotType == "Maybe"
SingleValueIntentName(slotType) == slotType \o "_ValueControlIntent"
UserEvent == "Alexa.Presentation.APL.UserEvent"
LaunchRequest == "LaunchRequest"
FallbackIntent == "AMAZON.FallbackIntent"

\* questionnaireData of the control under test
DemoQuestions ==
    << [id |-> "headache", targets |-> <<"headache">>],
       [id |-> "cough", targets |-> <<"cough">>],
       [id |-> "troubleSleeping", targets |-> <<"troubleSleep">>],
       [id |-> "soreToe", targets |-> <<"soreToe">>] >>
QuestionnaireContent ==
    [questions |-> SubSeq(DemoQuestions, 1, MaxQuestions),
     choices |-> << [id |-> "yes"], [id |-> "no"] >>]
QuestionIds == {QuestionnaireContent.questions[i].id : i \in 1..Len(QuestionnaireContent.questions)}
ChoiceIds == {QuestionnaireContent.choices[i].id : i \in 1..Len(QuestionnaireContent.choices)}
QuestionTargets ==
    {QuestionnaireContent.questions[i].targets[1] : i \in 1..Len(QuestionnaireContent.questions)}

\* a boolean field of the state is undefined until it is first assigned
TrueFlag == "true"
FalseFlag == "false"
truthy(flag) == flag = TrueFlag

\* activeInitiative?: { actName }
NoActiveInitiative == [actName |-> Undefined]

\* new QuestionnaireControlState() followed by this.state.value = {}.  The
\* answers object is the sequence of its (questionId, choiceId) properties in
\* insertion order.
QuestionnaireControlState ==
    [value |-> <<>>, activeInitiative |-> NoActiveInitiative, focusQuestionId |-> Undefined,
     isExplicitlyCompleted |-> Undefined, requireExplicitCompletion |-> Undefined,
     explicitlyActivated |-> Undefined]

\* props.valid: the default, and a skill function that rejects completion
\* while a question is unanswered
ValidDefault == "() => true"
ValidAllAnswered == "allAnswered"
ValidProps == {ValidDefault, ValidAllAnswered}
\* a skill function of the input: completion is accepted by voice only
ValidByVoice == "byVoice"

\* props.inputHandling.customHandlingFuncs: the default [], and a skill
\* handler for every GeneralControlIntent that asks to start, whatever
\* its target; it reports the request and leaves the state alone
CustomStartHandler == "custom::handleStart"
CustomHandledAct == "CustomHandledAct"
NoCustomHandlingFuncs == <<>>

QuestionnaireMergeWithDefaultProps(c) ==
    [id |-> QuestionnaireId,
     questionnaireData |-> QuestionnaireContent,
     required |-> c.required,
     valid |-> c.valid,
     interactionModel |->
        [slotType |-> QuestionnaireSlotType, filteredSlotType |-> QuestionnaireFilteredSlotType,
         targets |-> {TargetChoice, TargetIt},
         actions |-> [activate |-> {ActionStart, ActionResume},
                      complete |-> {ActionComplete},
                      answer |-> {ActionSet, ActionSelect}]],
     inputHandling |-> [customHandlingFuncs |-> c.customHandlingFuncs],
     dialog |-> [confirmationRequired |-> c.confirmationRequired]]

\* the request of a turn: an intent with its slots, or an APL user event
\* with its arguments
QuestionnaireInput(kind, feedback, action, target, valueStr, valueType, arguments) ==
    [kind |-> kind, feedback |-> feedback, action |-> action, target |-> target,
     valueStr |-> valueStr, valueType |-> valueType, arguments |-> arguments]
QGeneralIntent(feedback, action, target) ==
    QuestionnaireInput(GeneralControlIntent, feedback, action, target, Undefined, Undefined, <<>>)
QSingleValueIntent(slotType, feedback, action, target, valueStr) ==
    QuestionnaireInput(SingleValueIntentName(slotType), feedback, action, target, valueStr,
                       slotType, <<>>)
QBareIntent(name) ==
    QuestionnaireInput(name, Undefined, Undefined, Undefined, Undefined, Undefined, <<>>)
QUserEvent(arguments) ==
    QuestionnaireInput(UserEvent, Undefined, Undefined, Undefined, Undefined, Undefined, arguments)
NoQuestionnaireInput == QBareIntent(Undefined)

\* the inputs of a turn: activation, completion by voice and touch, bare,
\* explicit, targeted and touch answers over every question and choice, and
\* inputs that fail one guard each
QuestionnaireInputs ==
    {QGeneralIntent(Undefined, ActionStart, Undefined),
     QGeneralIntent(Undefined, ActionResume, TargetIt),
     QGeneralIntent(Undefined, ActionStart, TargetDate),
     QGeneralIntent(Undefined, ActionComplete, Undefined),
     QGeneralIntent(Affirm, ActionComplete, TargetIt),
     QGeneralIntent("yes", Undefined, Undefined),
     QGeneralIntent("maybe", Undefined, "cough"),
     QGeneralIntent("yes", Undefined, "soreKnee")}
    \cup {QGeneralIntent(c, Undefined, t) : c \in ChoiceIds, t \in QuestionTargets}
    \cup {QSingleValueIntent(QuestionnaireSlotType, Undefined, Undefined, Undefined, v) :
            v \in ChoiceIds \cup {"maybe"}}
    \cup {QSingleValueIntent(QuestionnaireSlotType, Undefined, ActionSet, t, c) :
            c \in ChoiceIds, t \in QuestionTargets}
    \cup {QSingleValueIntent(QuestionnaireSlotType, Undefined, Undefined, "cough", "maybe"),
          QSingleValueIntent(OtherSlotType, Undefined, Undefined, Undefined, "yes"),
          QSingleValueIntent(QuestionnaireSlotType, Undefined, ActionAdd, Undefined, "yes")}
    \cup {QBareIntent(YesIntent), QBareIntent(NoIntent), QBareIntent(FallbackIntent),
          QBareIntent(LaunchRequest)}
    \cup {QUserEvent(<<QuestionnaireId, "radioClick", q, i>>) :
            q \in QuestionIds, i \in -1..(Len(QuestionnaireContent.choices) - 1)}
    \cup {QUserEvent(<<QuestionnaireId, "radioClick", "cough", Len(QuestionnaireContent.choices)>>),
          QUserEvent(<<QuestionnaireId, "radioClick", "cough", -2>>),
          QUserEvent(<<QuestionnaireId, "radioClick", "soreKnee", 0>>),
          QUserEvent(<<"other", "radioClick", "cough", 0>>),
          QUserEvent(<<QuestionnaireId, "complete">>),
          QUserEvent(<<"other", "complete">>)}

\* an act of the result with its payload
QAct(name, questionId, choiceId, userAnsweredWithExplicitValue, userMentionedQuestion, reasonCode) ==
    [name |-> name, questionId |-> questionId, choiceId |-> choiceId,
     userAnsweredWithExplicitValue |-> userAnsweredWithExplicitValue,
     userMentionedQuestion |-> userMentionedQuestion, reasonCode |-> reasonCode]
QPlainAct(name) == QAct(name, Undefined, Undefined, FALSE, FALSE, Undefined)

\* InputUtil guards not used by MultiValueListControl
isIntentRequest(in) == in.kind \notin {UserEvent, LaunchRequest, Undefined}
targetIsUndefined(target) == target = Undefined
targetIsDefined(target) == target # Undefined
feedbackIsDefined(feedback) == feedback # Undefined
valueTypeMatchAny(valueType, slotTypes) == valueType \in slotTypes
singleValueStrDefined(valueStr) == valueStr # Undefined
isAPLUserEventWithMatchingControlId(in, controlId) ==
    in.kind = UserEvent /\ Len(in.arguments) >= 1 /\ in.arguments[1] = controlId

\* IntentUtils.defaultIntentToValueMapper: "AMAZON.YesIntent" -> 'yes' and so on
defaultIntentToValueMapper(in) ==
    IF in.kind = YesIntent THEN "yes"
    ELSE IF in.kind = NoIntent THEN "no"
    ELSE IF in.kind = FallbackIntent THEN "fallback"
    ELSE Undefined

\* this.state.value[questionId]: the stored { choiceId } or undefined
hasAnswer(value, questionId) == \E i \in 1..Len(value) : value[i].questionId = questionId
answerIndex(value, questionId) ==
    CHOOSE i \in 1..Len(value) :
        /\ value[i].questionId = questionId
        /\ \A j \in 1..(i - 1) : value[j].questionId # questionId
answerOf(value, questionId) ==
    IF hasAnswer(value, questionId) THEN value[answerIndex(value, questionId)].choiceId
    ELSE Undefined

\* content.questions.find((q) => this.state.value[q.id] === undefined)
getFirstUnansweredQuestion(st, content) ==
    LET open == {i \in 1..Len(content.questions) : ~hasAnswer(st.value, content.questions[i].id)}
    IN  IF open = {} THEN Undefined
        ELSE content.questions[CHOOSE i \in open : \A j \in open : i <= j].id

\* content.questions.find((q) => q.targets.includes(target))
findTargetedQuestion(content, target) ==
    LET hits == {i \in 1..Len(content.questions) : Includes(content.questions[i].targets, target)}
    IN  IF hits = {} THEN Undefined
        ELSE content.questions[CHOOSE i \in hits : \A j \in hits : i <= j].id

getChoiceIndexById(content, answerId) ==
    LET hits == {i \in 1..Len(content.choices) : content.choices[i].id = answerId}
    IN  IF hits = {} THEN UndefinedIndex ELSE (CHOOSE i \in hits : \A j \in hits : i <= j) - 1

\* the answer of every question is appended, also when the question has one
updateAnswer_appends(st, questionId, choiceId) ==
    IF choiceId # Undefined
    THEN [st EXCEPT !.value = Append(st.value, [questionId |-> questionId, choiceId |-> choiceId])]
    ELSE [st EXCEPT !.value = SelectSeq(st.value, LAMBDA a : a.questionId # questionId)]

\* this.state.value[questionId] = { choiceId }, or delete this.state.value[questionId]
updateAnswer(st, questionId, choiceId) ==
    IF choiceId # Undefined
    THEN IF hasAnswer(st.value, questionId)
         THEN [st EXCEPT !.value[answerIndex(st.value, questionId)] =
                             [questionId |-> questionId, choiceId |-> choiceId]]
         ELSE [st EXCEPT !.value =
                             Append(st.value, [questionId |-> questionId, choiceId |-> choiceId])]
    ELSE IF hasAnswer(st.value, questionId)
         THEN [st EXCEPT !.value =
                 LET k == answerIndex(st.value, questionId)
                 IN  SubSeq(st.value, 1, k - 1) \o SubSeq(st.value, k + 1, Len(st.value))]
         ELSE st

setExplicitlyActivatedFlag(st) == [st EXCEPT !.explicitlyActivated = TrueFlag]
setCompletionFlag(st) == [st EXCEPT !.isExplicitlyCompleted = TrueFlag]
clearCompletionFlag(st) == [st EXCEPT !.isExplicitlyCompleted = FalseFlag]

\* this.state.value === {} compares the answers object with a new object
\* literal: two distinct objects are never strictly equal
strictEqualsNewObject(value) == FALSE

\* isActive without the test of isExplicitlyCompleted
isActive_ignoresCompletion(st, p) ==
    IF strictEqualsNewObject(st.value) /\ ~truthy(st.explicitlyActivated) /\ p.required = FALSE
    THEN FALSE
    ELSE TRUE

isActive(st, p) ==
    IF strictEqualsNewObject(st.value) /\ ~truthy(st.explicitlyActivated) /\ p.required = FALSE
    THEN FALSE
    ELSE IF truthy(st.isExplicitlyCompleted) THEN FALSE
    ELSE TRUE

\* evaluateValidationProp(this.props.valid, this.state, input): true or a
\* ValidationFailure
evaluateValidationProp(valid, st, in, content) ==
    IF valid = ValidAllAnswered /\ getFirstUnansweredQuestion(st, content) # Undefined
    THEN [ok |-> FALSE, reasonCode |-> "incomplete"]
    ELSE IF valid = ValidByVoice /\ in.kind = UserEvent
    THEN [ok |-> FALSE, reasonCode |-> "useVoice"]
    ELSE [ok |-> TRUE, reasonCode |-> Undefined]

\* the outcome of a handler: the new state, the acts, whether it threw and
\* the new value of inputWasAnswerByTouch
QResult(st, as, touch) == [state |-> st, acts |-> as, threw |-> FALSE, touch |-> touch]
QThrown(st, as, touch) == [state |-> st, acts |-> as, threw |-> TRUE, touch |-> touch]

isActivate(st, p, in) ==
    /\ isIntent(in, GeneralControlIntent)
    /\ targetIsMatchOrUndefined(in.target, p.interactionModel.targets)
    /\ feedbackIsMatchOrUndefined(in.feedback, {Affirm, Disaffirm})
    /\ actionIsMatch(in.action, p.interactionModel.actions.activate)

handleActivate(st, p, in, as, touch) ==
    QResult(clearCompletionFlag(setExplicitlyActivatedFlag(st)), as, touch)

\* the guard without the test of activeInitiative
isBareAnswerToAskedQuestion_anyInitiative(st, p, in) ==
    /\ isIntentRequest(in)
    /\ st.focusQuestionId # Undefined
    /\ defaultIntentToValueMapper(in) # Undefined
    /\ getChoiceIndexById(p.questionnaireData, defaultIntentToValueMapper(in)) # UndefinedIndex

isBareAnswerToAskedQuestion(st, p, in) ==
    /\ isIntentRequest(in)
    /\ st.activeInitiative.actName = AskQuestionAct
    /\ st.focusQuestionId # Undefined
    /\ defaultIntentToValueMapper(in) # Undefined
    /\ getChoiceIndexById(p.questionnaireData, defaultIntentToValueMapper(in)) # UndefinedIndex

\* the bare answer acknowledged without being stored
handleBareAnswerToAskedQuestion_notStored(st, p, in, as, touch) ==
    LET mappedValue == defaultIntentToValueMapper(in)
    IN  QResult(clearCompletionFlag(st),
                Append(as, QAct(QuestionAnsweredAct, st.focusQuestionId, mappedValue,
                                FALSE, FALSE, Undefined)),
                touch)

handleBareAnswerToAskedQuestion(st, p, in, as, touch) ==
    LET mappedValue == defaultIntentToValueMapper(in)
        st1 == updateAnswer(st, st.focusQuestionId, mappedValue)
    IN  QResult(clearCompletionFlag(st1),
                Append(as, QAct(QuestionAnsweredAct, st.focusQuestionId, mappedValue,
                                FALSE, FALSE, Undefined)),
                touch)

isSpecificAnswerToAskedQuestion(st, p, in) ==
    /\ st.focusQuestionId # Undefined
    /\ isIntent(in, SingleValueIntentName(p.interactionModel.slotType))
    /\ targetIsUndefined(in.target)
    /\ valueTypeMatchAny(in.valueType, {p.interactionModel.slotType,
                                         p.interactionModel.filteredSlotType})
    /\ singleValueStrDefined(in.valueStr)
    /\ feedbackIsMatchOrUndefined(in.feedback, {Affirm, Disaffirm})
    /\ actionIsMatchOrUndefined(in.action, p.interactionModel.actions.answer)

handleSpecificAnswerToAskedQuestion(st, p, in, as, touch) ==
    IF getChoiceIndexById(p.questionnaireData, in.valueStr) # UndefinedIndex
    THEN LET st1 == updateAnswer(st, st.focusQuestionId, in.valueStr)
         IN  QResult(clearCompletionFlag(st1),
                     Append(as, QAct(QuestionAnsweredAct, st.focusQuestionId, in.valueStr,
                                     TRUE, FALSE, Undefined)),
                     touch)
    ELSE QThrown(st, as, touch)

isFeedbackAnswerToSpecificQuestion(st, p, in) ==
    /\ isIntent(in, GeneralControlIntent)
    /\ targetIsDefined(in.target)
    /\ findTargetedQuestion(p.questionnaireData, in.target) # Undefined
    /\ feedbackIsDefined(in.feedback)
    /\ getChoiceIndexById(p.questionnaireData, in.feedback) # UndefinedIndex

handleFeedbackAnswerToSpecificQuestion(st, p, in, as, touch) ==
    LET targetedQuestion == findTargetedQuestion(p.questionnaireData, in.target)
        st1 == updateAnswer(st, targetedQuestion, in.feedback)
    IN  QResult(clearCompletionFlag(st1),
                Append(as, QAct(QuestionAnsweredAct, targetedQuestion, in.feedback,
                                TRUE, TRUE, Undefined)),
                touch)

isSpecificAnswerToSpecificQuestion(st, p, in) ==
    /\ isIntent(in, SingleValueIntentName(p.interactionModel.slotType))
    /\ targetIsDefined(in.target)
    /\ findTargetedQuestion(p.questionnaireData, in.target) # Undefined
    /\ valueTypeMatch(in.valueType, p.interactionModel.slotType)
    /\ singleValueStrDefined(in.valueStr)
    /\ getChoiceIndexById(p.questionnaireData, in.valueStr) # UndefinedIndex
    /\ feedbackIsMatchOrUndefined(in.feedback, {Affirm, Disaffirm})
    /\ actionIsMatchOrUndefined(in.action, p.interactionModel.actions.answer)

\* the answer is stored for the question in focus when there is one
handleSpecificAnswerToSpecificQuestion_usesFocus(st, p, in, as, touch) ==
    LET targetedQuestion == IF st.focusQuestionId # Undefined THEN st.focusQuestionId
                            ELSE findTargetedQuestion(p.questionnaireData, in.target)
        st1 == updateAnswer(st, targetedQuestion, in.valueStr)
    IN  QResult(clearCompletionFlag(st1),
                Append(as, QAct(QuestionAnsweredAct, targetedQuestion, in.valueStr,
                                TRUE, TRUE, Undefined)),
                touch)

handleSpecificAnswerToSpecificQuestion(st, p, in, as, touch) ==
    LET targetedQuestion == findTargetedQuestion(p.questionnaireData, in.target)
        st1 == updateAnswer(st, targetedQuestion, in.valueStr)
    IN  QResult(clearCompletionFlag(st1),
                Append(as, QAct(QuestionAnsweredAct, targetedQuestion, in.valueStr,
                                TRUE, TRUE, Undefined)),
                touch)

\* the touch guard without the lookup of the question id
isSpecificAnswerByTouch_anyQuestion(st, p, in) ==
    /\ isAPLUserEventWithMatchingControlId(in, p.id)
    /\ Len(in.arguments) = 4
    /\ in.arguments[2] = "radioClick"
    /\ in.arguments[4] >= -1
    /\ in.arguments[4] < Len(p.questionnaireData.choices)

isSpecificAnswerByTouch(st, p, in) ==
    /\ isAPLUserEventWithMatchingControlId(in, p.id)
    /\ Len(in.arguments) = 4
    /\ in.arguments[2] = "radioClick"
    /\ \E i \in 1..Len(p.questionnaireData.questions) :
          p.questionnaireData.questions[i].id = in.arguments[3]
    /\ in.arguments[4] >= -1
    /\ in.arguments[4] < Len(p.questionnaireData.choices)

\* index -1 leaves the stored answer in place
handleSpecificAnswerByTouch_keepsOnClear(st, p, in, as, touch) ==
    LET questionId == in.arguments[3]
        choiceIndex == in.arguments[4]
        st1 == IF choiceIndex = -1 THEN st
               ELSE updateAnswer(st, questionId, p.questionnaireData.choices[choiceIndex + 1].id)
    IN  QResult(clearCompletionFlag(st1), as, TRUE)

handleSpecificAnswerByTouch(st, p, in, as, touch) ==
    LET questionId == in.arguments[3]
        choiceIndex == in.arguments[4]
        choiceId == IF choiceIndex = -1 THEN Undefined
                    ELSE p.questionnaireData.choices[choiceIndex + 1].id
        st1 == updateAnswer(st, questionId, choiceId)
    IN  QResult(clearCompletionFlag(st1), as, TRUE)

isCompletionRequestByVoice(st, p, in) ==
    /\ isIntent(in, GeneralControlIntent)
    /\ targetIsMatchOrUndefined(in.target, p.interactionModel.targets)
    /\ feedbackIsMatchOrUndefined(in.feedback, {Affirm, Disaffirm})
    /\ actionIsMatch(in.action, p.interactionModel.actions.complete)

isCompletionRequestByTouch(st, p, in) ==
    /\ isAPLUserEventWithMatchingControlId(in, p.id)
    /\ Len(in.arguments) = 2
    /\ in.arguments[2] = "complete"

\* completion is marked also when the validation fails
handleCompletionRequest_marksAlways(st, p, in, as, touch) ==
    LET validationResult == evaluateValidationProp(p.valid, st, in, p.questionnaireData)
    IN  IF validationResult.ok
        THEN QResult(setCompletionFlag(st), Append(as, QPlainAct(CompletedAct)), touch)
        ELSE QResult(setCompletionFlag(st),
                     Append(as, QAct(QuestionnaireCompletionRejectedAct, Undefined, Undefined,
                                     FALSE, FALSE, validationResult.reasonCode)),
                     touch)

handleCompletionRequest(st, p, in, as, touch) ==
    LET validationResult == evaluateValidationProp(p.valid, st, in, p.questionnaireData)
    IN  IF validationResult.ok
        THEN QResult(setCompletionFlag(st), Append(as, QPlainAct(CompletedAct)), touch)
        ELSE QResult(st,
                     Append(as, QAct(QuestionnaireCompletionRejectedAct, Undefined, Undefined,
                                     FALSE, FALSE, validationResult.reasonCode)),
                     touch)

isBareYesToCompletionQuestion(st, p, in) ==
    /\ st.activeInitiative.actName = AskIfCompleteAct
    /\ isBareYes(in)

isBareNoToCompletionQuestion(st, p, in) ==
    /\ st.activeInitiative.actName = AskIfCompleteAct
    /\ isBareNo(in)

\* requireExplicitCompletion is left as it was
handleBareNoToCompletionQuestion_keepsAsking(st, p, in, as, touch) ==
    QResult(clearCompletionFlag(st), Append(as, QPlainAct(AcknowledgeNotCompleteAct)), touch)

handleBareNoToCompletionQuestion(st, p, in, as, touch) ==
    QResult([clearCompletionFlag(st) EXCEPT !.requireExplicitCompletion = TrueFlag],
            Append(as, QPlainAct(AcknowledgeNotCompleteAct)), touch)

customStartCanHandle(st, p, in) ==
    /\ isIntent(in, GeneralControlIntent)
    /\ in.action = ActionStart

customStartHandle(st, p, in, as, touch) ==
    QResult(st, Append(as, QPlainAct(CustomHandledAct)), touch)

\* standardInputHandlers, in priority order, as (guard, handler) names
standardInputHandlers ==
    << "handleActivate", "handleBareAnswerToAskedQuestion",
       "handleSpecificAnswerToAskedQuestion", "handleSpecificAnswerToSpecificQuestion",
       "handleFeedbackAnswerToSpecificQuestion", "handleSpecificAnswerByTouch",
       "handleCompletionRequest (voice)", "handleCompletionRequest (touch)",
       "handleCompletionRequest (bare yes)", "handleBareNoToCompletionQuestion" >>

handlerCanHandle(name, st, p, in) ==
    CASE name = "handleActivate" -> isActivate(st, p, in)
      [] name = "handleBareAnswerToAskedQuestion" -> isBareAnswerToAskedQuestion(st, p, in)
      [] name = "handleSpecificAnswerToAskedQuestion" -> isSpecificAnswerToAskedQuestion(st, p, in)
      [] name = "handleSpecificAnswerToSpecificQuestion" ->
            isSpecificAnswerToSpecificQuestion(st, p, in)
      [] name = "handleFeedbackAnswerToSpecificQuestion" ->
            isFeedbackAnswerToSpecificQuestion(st, p, in)
      [] name = "handleSpecificAnswerByTouch" -> isSpecificAnswerByTouch(st, p, in)
      [] name = "handleCompletionRequest (voice)" -> isCompletionRequestByVoice(st, p, in)
      [] name = "handleCompletionRequest (touch)" -> isCompletionRequestByTouch(st, p, in)
      [] name = "handleCompletionRequest (bare yes)" -> isBareYesToCompletionQuestion(st, p, in)
      [] name = "handleBareNoToCompletionQuestion" -> isBareNoToCompletionQuestion(st, p, in)
      [] name = CustomStartHandler -> customStartCanHandle(st, p, in)

\* canHandle: the handlers whose guard passes, the standard handlers first
\* and the custom ones after them
questionnaireMatches(st, p, in) ==
    LET stdHandlers == standardInputHandlers
        customHandlers == p.inputHandling.customHandlingFuncs
    IN  SelectSeq(stdHandlers \o customHandlers,
                  LAMBDA name : handlerCanHandle(name, st, p, in))

\* the handler taken is the last of those whose guard passes
questionnaireCanHandleFunc_lastMatch(st, p, in) ==
    LET matches == questionnaireMatches(st, p, in)
    IN  IF Len(matches) >= 1 THEN matches[Len(matches)] ELSE Undefined

\* canHandle: matches[0].handle, or undefined when nothing matches
questionnaireCanHandleFunc(st, p, in) ==
    LET matches == questionnaireMatches(st, p, in)
    IN  IF Len(matches) >= 1 THEN matches[1] ELSE Undefined

runQuestionnaireHandleFunc(f, st, p, in, as, touch) ==
    CASE f = "handleActivate" -> handleActivate(st, p, in, as, touch)
      [] f = "handleBareAnswerToAskedQuestion" ->
            handleBareAnswerToAskedQuestion(st, p, in, as, touch)
      [] f = "handleSpecificAnswerToAskedQuestion" ->
            handleSpecificAnswerToAskedQuestion(st, p, in, as, touch)
      [] f = "handleSpecificAnswerToSpecificQuestion" ->
            handleSpecificAnswerToSpecificQuestion(st, p, in, as, touch)
      [] f = "handleFeedbackAnswerToSpecificQuestion" ->
            handleFeedbackAnswerToSpecificQuestion(st, p, in, as, touch)
      [] f = "handleSpecificAnswerByTouch" -> handleSpecificAnswerByTouch(st, p, in, as, touch)
      [] f \in {"handleCompletionRequest (voice)", "handleCompletionRequest (touch)",
                "handleCompletionRequest (bare yes)"} ->
            handleCompletionRequest(st, p, in, as, touch)
      [] f = "handleBareNoToCompletionQuestion" ->
            handleBareNoToCompletionQuestion(st, p, in, as, touch)
      [] f = CustomStartHandler -> customStartHandle(st, p, in, as, touch)

\* completion is reported as soon as every question is answered
questionnaireHandle_ignoresConfirmation(f, st, p, in, as, touch) ==
    LET r == runQuestionnaireHandleFunc(f, st, p, in, as, touch)
        st1 == [r.state EXCEPT !.activeInitiative = NoActiveInitiative]
        isDone == getFirstUnansweredQuestion(st1, p.questionnaireData) = Undefined
    IN  IF r.threw THEN r
        ELSE IF isDone
             THEN QResult(st1, Append(r.acts, QPlainAct(CompletedAct)), r.touch)
             ELSE QResult(st1, r.acts, r.touch)

\* handle: run the selected handler, clear activeInitiative, and report
\* completion when every question is answered and no confirmation is required
questionnaireHandle(f, st, p, in, as, touch) ==
    LET r == runQuestionnaireHandleFunc(f, st, p, in, as, touch)
        st1 == [r.state EXCEPT !.activeInitiative = NoActiveInitiative]
        isDone == getFirstUnansweredQuestion(st1, p.questionnaireData) = Undefined
    IN  IF r.threw THEN r
        ELSE IF isDone /\ ~p.dialog.confirmationRequired
             THEN QResult(st1, Append(r.acts, QPlainAct(CompletedAct)), r.touch)
             ELSE QResult(st1, r.acts, r.touch)

\* the next question is wanted as long as the control is active
wantsToAskLineItemQuestion_whileActive(st, p) == isActive(st, p)

wantsToAskLineItemQuestion(st, p) ==
    /\ isActive(st, p)
    /\ getFirstUnansweredQuestion(st, p.questionnaireData) # Undefined

\* the question asked is the last one without an answer
askLineItemQuestion_lastOpen(st, p, as, touch) ==
    LET open == {i \in 1..Len(p.questionnaireData.questions) :
                    ~hasAnswer(st.value, p.questionnaireData.questions[i].id)}
        lastUnansweredQuestion ==
            p.questionnaireData.questions[CHOOSE i \in open : \A j \in open : i >= j].id
        initiativeAct ==
            IF touch THEN QPlainAct(ActiveAPLInitiativeAct)
            ELSE QAct(AskQuestionAct, lastUnansweredQuestion, Undefined, FALSE, FALSE, Undefined)
    IN  QResult([st EXCEPT !.focusQuestionId = lastUnansweredQuestion,
                           !.activeInitiative = [actName |-> initiativeAct.name]],
                Append(as, initiativeAct), touch)

askLineItemQuestion(st, p, as, touch) ==
    LET firstUnansweredQuestion == getFirstUnansweredQuestion(st, p.questionnaireData)
        initiativeAct ==
            IF touch THEN QPlainAct(ActiveAPLInitiativeAct)
            ELSE QAct(AskQuestionAct, firstUnansweredQuestion, Undefined, FALSE, FALSE, Undefined)
    IN  QResult([st EXCEPT !.focusQuestionId = firstUnansweredQuestion,
                           !.activeInitiative = [actName |-> initiativeAct.name]],
                Append(as, initiativeAct), touch)

\* the completion question is asked whether or not confirmation is required
wantsToAskIfComplete_always(st, p) ==
    /\ isActive(st, p)
    /\ getFirstUnansweredQuestion(st, p.questionnaireData) = Undefined

wantsToAskIfComplete(st, p) ==
    /\ isActive(st, p)
    /\ p.dialog.confirmationRequired
    /\ getFirstUnansweredQuestion(st, p.questionnaireData) = Undefined

\* the completion question is asked whatever requireExplicitCompletion is
askIfComplete_alwaysAsks(st, p, as, touch) ==
    QResult([st EXCEPT !.activeInitiative = [actName |-> AskIfCompleteAct]],
            Append(as, QPlainAct(AskIfCompleteAct)), touch)

askIfComplete(st, p, as, touch) ==
    LET initiativeAct ==
            IF truthy(st.requireExplicitCompletion) THEN QPlainAct(SuggestContinueAct)
            ELSE QPlainAct(AskIfCompleteAct)
    IN  QResult([st EXCEPT !.activeInitiative = [actName |-> initiativeAct.name]],
                Append(as, initiativeAct), touch)

\* standardInitiativeHandlers, in priority order
standardInitiativeHandlers == << "askLineItemQuestion", "askIfComplete" >>

initiativeHandlerCanTake(name, st, p) ==
    CASE name = "askLineItemQuestion" -> wantsToAskLineItemQuestion(st, p)
      [] name = "askIfComplete" -> wantsToAskIfComplete(st, p)

\* canTakeInitiative: matches[0].takeInitiative, or undefined
questionnaireCanTakeInitiativeFunc(st, p) ==
    LET matches == SelectSeq(standardInitiativeHandlers,
                             LAMBDA name : initiativeHandlerCanTake(name, st, p))
    IN  IF Len(matches) >= 1 THEN matches[1] ELSE Undefined

runQuestionnaireInitiativeFunc(f, st, p, as, touch) ==
    CASE f = "askLineItemQuestion" -> askLineItemQuestion(st, p, as, touch)
      [] f = "askIfComplete" -> askIfComplete(st, p, as, touch)

(***************************************************************************)
(* The turns of a QuestionnaireControl.  The runtime asks canHandle; if    *)
(* true it calls handle; if the result has no initiative act it asks       *)
(* canTakeInitiative and then calls takeInitiative.                        *)
(***************************************************************************)
QuestionnaireConfigs ==
    [required : BOOLEAN, confirmationRequired : BOOLEAN, valid : ValidProps,
     customHandlingFuncs : {NoCustomHandlingFuncs}]

\* the configurations with a custom input handler
QuestionnaireCustomConfigs ==
    [required : {TRUE}, confirmationRequired : BOOLEAN, valid : {ValidDefault},
     customHandlingFuncs : {<<CustomStartHandler>>}]

InitQ ==
    /\ cfg \in QuestionnaireConfigs
    /\ props = QuestionnaireMergeWithDefaultProps(cfg)
    /\ state = QuestionnaireControlState
    /\ input = NoQuestionnaireInput
    /\ handleFunc = Undefined
    /\ initiativeFunc = Undefined
    /\ acts = <<>>
    /\ phase = "idle"
    /\ pre = QuestionnaireControlState
    /\ emitted = Undefined
    /\ prevInitiative = Undefined
    /\ inputWasAnswerByTouch = FALSE

QNewTurn(in) ==
    /\ phase = "idle"
    /\ input' = in
    /\ phase' = "start"
    /\ UNCHANGED <<cfg, props, state, handleFunc, initiativeFunc, acts, pre, emitted,
                   prevInitiative, inputWasAnswerByTouch>>

\* the response is sent and this.state persisted; the control of the next
\* request is constructed anew and its state rehydrated
QEndTurn ==
    /\ TurnOver
    /\ input' = NoQuestionnaireInput
    /\ props' = QuestionnaireMergeWithDefaultProps(cfg)
    /\ handleFunc' = Undefined
    /\ initiativeFunc' = Undefined
    /\ inputWasAnswerByTouch' = FALSE
    /\ acts' = <<>>
    /\ pre' = state
    /\ phase' = "idle"
    /\ prevInitiative' = IF phase = "threw" THEN Undefined
                         ELSE lastInitiativeActName(acts, Undefined)
    /\ UNCHANGED <<cfg, state, emitted>>

QCanHandle ==
    /\ phase = "start"
    /\ LET f == questionnaireCanHandleFunc(state, props, input)
       IN  /\ handleFunc' = f
           /\ phase' = IF f = Undefined THEN "canHandleFalse" ELSE "canHandleTrue"
    /\ UNCHANGED <<cfg, props, state, input, initiativeFunc, acts, pre, emitted,
                   prevInitiative, inputWasAnswerByTouch>>

\* handle() running handleActivate when canHandle has stored no handler
QHandleCall_runsUnselected ==
    /\ LET f == IF handleFunc = Undefined THEN "handleActivate" ELSE handleFunc
           r == questionnaireHandle(f, state, props, input, acts, inputWasAnswerByTouch)
       IN  /\ state' = r.state
           /\ acts' = r.acts
           /\ inputWasAnswerByTouch' = r.touch
           /\ phase' = IF r.threw THEN "threw" ELSE "handled"
    /\ UNCHANGED <<cfg, props, input, handleFunc, initiativeFunc, pre, emitted, prevInitiative>>

\* handle(): throws when canHandle has stored no handler
QHandleCall ==
    IF handleFunc = Undefined
    THEN ThrowsAtOnce
    ELSE /\ LET r == questionnaireHandle(handleFunc, state, props, input, acts,
                                         inputWasAnswerByTouch)
            IN  /\ state' = r.state
                /\ acts' = r.acts
                /\ inputWasAnswerByTouch' = r.touch
                /\ phase' = IF r.threw THEN "threw" ELSE "handled"
         /\ UNCHANGED <<cfg, props, input, handleFunc, initiativeFunc, pre, emitted,
                        prevInitiative>>

QHandle ==
    /\ phase = "canHandleTrue"
    /\ QHandleCall

QCanTakeInitiative ==
    /\ \/ phase = "canHandleFalse"
       \/ phase = "handled" /\ ~hasInitiativeAct(acts)
    /\ LET f == questionnaireCanTakeInitiativeFunc(state, props)
       IN  /\ initiativeFunc' = f
           /\ phase' = IF f = Undefined THEN "canInitFalse" ELSE "canInitTrue"
    /\ UNCHANGED <<cfg, props, state, input, handleFunc, acts, pre, emitted, prevInitiative,
                   inputWasAnswerByTouch>>

\* takeInitiative(): throws when canTakeInitiative has stored no function
QTakeInitiativeCall ==
    IF initiativeFunc = Undefined
    THEN ThrowsAtOnce
    ELSE /\ LET r == runQuestionnaireInitiativeFunc(initiativeFunc, state, props, acts,
                                                    inputWasAnswerByTouch)
            IN  /\ state' = r.state
                /\ acts' = r.acts
                /\ phase' = "done"
                /\ emitted' = lastInitiativeActName(r.acts, emitted)
         /\ UNCHANGED <<cfg, props, input, handleFunc, initiativeFunc, pre, prevInitiative,
                        inputWasAnswerByTouch>>

QTakeInitiative ==
    /\ phase = "canInitTrue"
    /\ QTakeInitiativeCall

NextQ ==
    \/ \E in \in QuestionnaireInputs : QNewTurn(in)
    \/ QCanHandle
    \/ QHandle
    \/ QCanTakeInitiative
    \/ QTakeInitiative
    \/ QEndTurn

SpecQ == InitQ /\ [][NextQ]_mvVars

\* the same control constructed with a custom input handler
InitQCustom ==
    /\ cfg \in QuestionnaireCustomConfigs
    /\ props = QuestionnaireMergeWithDefaultProps(cfg)
    /\ state = QuestionnaireControlState
    /\ input = NoQuestionnaireInput
    /\ handleFunc = Undefined
    /\ initiativeFunc = Undefined
    /\ acts = <<>>
    /\ phase = "idle"
    /\ pre = QuestionnaireControlState
    /\ emitted = Undefined
    /\ prevInitiative = Undefined
    /\ inputWasAnswerByTouch = FALSE

SpecQCustom == InitQCustom /\ [][NextQ]_mvVars

\* the same control constructed with a validation that depends on the input
InitQValidByVoice ==
    /\ cfg \in [required : {TRUE}, confirmationRequired : BOOLEAN, valid : {ValidByVoice},
                customHandlingFuncs : {NoCustomHandlingFuncs}]
    /\ props = QuestionnaireMergeWithDefaultProps(cfg)
    /\ state = QuestionnaireControlState
    /\ input = NoQuestionnaireInput
    /\ handleFunc = Undefined
    /\ initiativeFunc = Undefined
    /\ acts = <<>>
    /\ phase = "idle"
    /\ pre = QuestionnaireControlState
    /\ emitted = Undefined
    /\ prevInitiative = Undefined
    /\ inputWasAnswerByTouch = FALSE

SpecQValidByVoice == InitQValidByVoice /\ [][NextQ]_mvVars

(***************************************************************************)
(* Properties of QuestionnaireControl                                      *)
(***************************************************************************)
\* the choices stored for a question: a set with at most one element when
\* the answers hold one entry per question
ChoicesStored(value, questionId) ==
    {value[i].choiceId : i \in {k \in 1..Len(value) : value[k].questionId = questionId}}
EntriesStored(value, questionId) ==
    Cardinality({k \in 1..Len(value) : value[k].questionId = questionId})

\* a turn whose input has been handled without an exception
QTurnHandled == phase \in {"handled", "canInitTrue", "canInitFalse", "done"} /\ handleFunc # Undefined

\* the question a handled answer input is about and the choice it gives,
\* read from the input and the state at the start of the turn
AnsweredQuestion ==
    IF handleFunc \in {"handleBareAnswerToAskedQuestion", "handleSpecificAnswerToAskedQuestion"}
    THEN pre.focusQuestionId
    ELSE IF handleFunc \in {"handleSpecificAnswerToSpecificQuestion",
                            "handleFeedbackAnswerToSpecificQuestion"}
    THEN (CHOOSE q \in Range(QuestionnaireContent.questions) : Includes(q.targets, input.target)).id
    ELSE input.arguments[3]
AnsweredChoice ==
    IF handleFunc = "handleBareAnswerToAskedQuestion"
    THEN (IF input.kind = YesIntent THEN "yes" ELSE "no")
    ELSE IF handleFunc \in {"handleSpecificAnswerToAskedQuestion",
                            "handleSpecificAnswerToSpecificQuestion"}
    THEN input.valueStr
    ELSE IF handleFunc = "handleFeedbackAnswerToSpecificQuestion"
    THEN input.feedback
    ELSE QuestionnaireContent.choices[input.arguments[4] + 1].id
AnswerHandlers ==
    {"handleBareAnswerToAskedQuestion", "handleSpecificAnswerToAskedQuestion",
     "handleSpecificAnswerToSpecificQuestion", "handleFeedbackAnswerToSpecificQuestion",
     "handleSpecificAnswerByTouch"}
\* a handled turn that gives a choice for a question
AnswerTurnHandled ==
    /\ QTurnHandled
    /\ handleFunc \in AnswerHandlers
    /\ handleFunc = "handleSpecificAnswerByTouch" => input.arguments[4] # -1

(***************************************************************************)
(* C10: the state holds at most one answer per question id; a handled      *)
(* answer (bare, explicit, targeted or by touch) leaves exactly the given  *)
(* choice stored for its question, also when the question already had a    *)
(* different answer, and leaves the answers of all other questions as      *)
(* they were at the start of the turn.                                     *)
(***************************************************************************)
C10_ReanswerReplaces ==
    /\ \A q \in QuestionIds : EntriesStored(state.value, q) <= 1
    /\ AnswerTurnHandled
       => /\ ChoicesStored(state.value, AnsweredQuestion) = {AnsweredChoice}
          /\ EntriesStored(state.value, AnsweredQuestion) = 1
          /\ \A q \in QuestionIds \ {AnsweredQuestion} :
                /\ ChoicesStored(state.value, q) = ChoicesStored(pre.value, q)
                /\ EntriesStored(state.value, q) = EntriesStored(pre.value, q)

\* a targeted answer changes the stored answer of a question while another
\* question holds an answer
C10_Witness ==
    /\ AnswerTurnHandled
    /\ handleFunc \in {"handleSpecificAnswerToSpecificQuestion",
                       "handleFeedbackAnswerToSpecificQuestion"}
    /\ ChoicesStored(pre.value, AnsweredQuestion) = {"yes"}
    /\ AnsweredChoice = "no"
    /\ ChoicesStored(state.value, AnsweredQuestion) = {"no"}
    /\ \E q \in QuestionIds \ {AnsweredQuestion} : ChoicesStored(state.value, q) # {}

\* the same by touch
C10_WitnessTouch ==
    /\ AnswerTurnHandled
    /\ handleFunc = "handleSpecificAnswerByTouch"
    /\ ChoicesStored(pre.value, AnsweredQuestion) = {"no"}
    /\ ChoicesStored(state.value, AnsweredQuestion) = {"yes"}
    /\ \E q \in QuestionIds \ {AnsweredQuestion} : ChoicesStored(state.value, q) # {}

\* the same by an answer that names no question
C10_WitnessAsked ==
    /\ AnswerTurnHandled
    /\ handleFunc \in {"handleBareAnswerToAskedQuestion", "handleSpecificAnswerToAskedQuestion"}
    /\ ChoicesStored(pre.value, AnsweredQuestion) = {"yes"}
    /\ ChoicesStored(state.value, AnsweredQuestion) = {"no"}

\* every question has a stored answer
AllAnswered(value) == \A q \in QuestionIds : EntriesStored(value, q) >= 1
CompletionHandlers ==
    {"handleCompletionRequest (voice)", "handleCompletionRequest (touch)",
     "handleCompletionRequest (bare yes)"}
\* a handled turn that gives the last unanswered question its answer
LastAnswerTurn == AnswerTurnHandled /\ ~AllAnswered(pre.value) /\ AllAnswered(state.value)
LastActName == IF acts = <<>> THEN Undefined ELSE acts[Len(acts)].name

(***************************************************************************)
(* C11 as stated: with confirmationRequired = true a CompletedAct occurs   *)
(* only in a turn that handles a completion request (voice, touch or bare  *)
(* yes to AskIfCompleteAct); the turn that answers the last unanswered     *)
(* question has no CompletedAct and ends with an AskIfCompleteAct.         *)
(***************************************************************************)
C11_CompletionGatedAsStated ==
    cfg.confirmationRequired
    => /\ ActsNamed(acts, CompletedAct) # <<>> => handleFunc \in CompletionHandlers
       /\ LastAnswerTurn
          => /\ ActsNamed(acts, CompletedAct) = <<>>
             /\ phase # "canInitFalse"
             /\ phase = "done" => LastActName = AskIfCompleteAct

(***************************************************************************)
(* C11 amended: as above, but the turn that answers the last unanswered    *)
(* question ends with the completion initiative: an AskIfCompleteAct, or a *)
(* SuggestContinueAct once requireExplicitCompletion has been set by a     *)
(* bare no to an earlier AskIfCompleteAct.                                 *)
(***************************************************************************)
C11_CompletionGated ==
    cfg.confirmationRequired
    => /\ ActsNamed(acts, CompletedAct) # <<>>
          => handleFunc \in CompletionHandlers
       /\ LastAnswerTurn
          => /\ ActsNamed(acts, CompletedAct) = <<>>
             /\ phase # "canInitFalse"
             /\ phase = "done"
                => LastActName = IF truthy(state.requireExplicitCompletion)
                                 THEN SuggestContinueAct ELSE AskIfCompleteAct

\* the last question is answered by voice and the control asks if complete
C11_Witness ==
    /\ cfg.confirmationRequired
    /\ LastAnswerTurn
    /\ handleFunc = "handleBareAnswerToAskedQuestion"
    /\ phase = "done"
    /\ acts = <<QAct(QuestionAnsweredAct, AnsweredQuestion, AnsweredChoice, FALSE, FALSE, Undefined),
                QPlainAct(AskIfCompleteAct)>>

\* after a bare no to the completion question and a removed answer, the
\* last answer is followed by the suggestion to continue
C11_WitnessSuggest ==
    /\ cfg.confirmationRequired
    /\ LastAnswerTurn
    /\ phase = "done"
    /\ LastActName = SuggestContinueAct

\* a completion request with confirmationRequired = true reports completion
C11_WitnessCompleted ==
    /\ cfg.confirmationRequired
    /\ handleFunc \in CompletionHandlers
    /\ ActsNamed(acts, CompletedAct) # <<>>

OpenPositions(value) ==
    {i \in 1..Len(QuestionnaireContent.questions) :
        EntriesStored(value, QuestionnaireContent.questions[i].id) = 0}
\* a turn in which the control has taken the ask-question initiative
AskedLineItem == phase = "done" /\ initiativeFunc = "askLineItemQuestion"

(***************************************************************************)
(* C13: when the control takes the ask-question initiative, the question   *)
(* asked is the first in configured order without a stored answer, also    *)
(* after an out-of-order answer to a later question; focusQuestionId is    *)
(* that question and activeInitiative names the act emitted.               *)
(***************************************************************************)
C13_AsksFirstUnanswered ==
    AskedLineItem
    => /\ OpenPositions(state.value) # {}
       /\ \E i \in OpenPositions(state.value) :
            /\ \A j \in OpenPositions(state.value) : i <= j
            /\ state.focusQuestionId = QuestionnaireContent.questions[i].id
            /\ LastActName = AskQuestionAct
               => acts[Len(acts)].questionId = QuestionnaireContent.questions[i].id
       /\ LastActName \in {AskQuestionAct, ActiveAPLInitiativeAct}
       /\ state.activeInitiative = [actName |-> LastActName]

\* the first question is asked, the user answers the second one by its
\* target, and the control asks the first question again
C13_Witness ==
    /\ AskedLineItem
    /\ handleFunc = "handleFeedbackAnswerToSpecificQuestion"
    /\ pre.focusQuestionId = "headache"
    /\ AnsweredQuestion = "cough"
    /\ EntriesStored(pre.value, "cough") = 0
    /\ state.focusQuestionId = "headache"
    /\ acts[Len(acts)] = QAct(AskQuestionAct, "headache", Undefined, FALSE, FALSE, Undefined)

(***************************************************************************)
(* C14: a control configured with required = false takes no initiative     *)
(* (canTakeInitiative is false) while it holds no answers and has not been *)
(* explicitly activated.                                                   *)
(***************************************************************************)
C14_IdleUnlessRequiredOrActivated ==
    (/\ phase \in {"canInitTrue", "canInitFalse"}
     /\ ~cfg.required
     /\ state.value = <<>>
     /\ ~truthy(state.explicitlyActivated))
    => phase = "canInitFalse"

\* the control is active: started explicitly or required or holding answers,
\* and not explicitly completed
ActiveAsDocumented ==
    /\ ~(state.value = <<>> /\ ~truthy(state.explicitlyActivated) /\ ~cfg.required)
    /\ ~truthy(state.isExplicitlyCompleted)

(***************************************************************************)
(* C15: the completion initiative fires only when the control is active,   *)
(* every question has an answer and confirmationRequired is true; it emits *)
(* AskIfCompleteAct when requireExplicitCompletion is not set and          *)
(* SuggestContinueAct when it is, and activeInitiative names the act.      *)
(***************************************************************************)
C15_AskIfComplete ==
    /\ (phase \in {"canInitTrue", "done"} /\ initiativeFunc = "askIfComplete")
       => /\ ActiveAsDocumented
          /\ AllAnswered(state.value)
          /\ cfg.confirmationRequired
    /\ (phase = "done" /\ initiativeFunc = "askIfComplete")
       => /\ LastActName = IF truthy(state.requireExplicitCompletion)
                           THEN SuggestContinueAct ELSE AskIfCompleteAct
          /\ Len(InitiativeActsOf(acts)) = 1
          /\ state.activeInitiative = [actName |-> LastActName]
    /\ (phase = "done" /\ LastActName \in {AskIfCompleteAct, SuggestContinueAct})
       => initiativeFunc = "askIfComplete"

\* the control suggests to continue after a bare no to the completion question
C15_Witness ==
    /\ phase = "done"
    /\ initiativeFunc = "askIfComplete"
    /\ state.requireExplicitCompletion = TrueFlag
    /\ handleFunc = "handleBareNoToCompletionQuestion"
    /\ acts = <<QPlainAct(AcknowledgeNotCompleteAct), QPlainAct(SuggestContinueAct)>>
    /\ state.activeInitiative = [actName |-> SuggestContinueAct]

\* the control asks if the questionnaire is complete
C15_WitnessAsk ==
    /\ phase = "done"
    /\ initiativeFunc = "askIfComplete"
    /\ state.requireExplicitCompletion = Undefined
    /\ LastActName = AskIfCompleteAct
    /\ state.activeInitiative = [actName |-> AskIfCompleteAct]

\* the turn's input is a touch selection handled by the control
TouchTurnHandled == QTurnHandled /\ handleFunc = "handleSpecificAnswerByTouch"

(***************************************************************************)
(* C16: a touch event [controlId, 'radioClick', questionId, choiceIndex]   *)
(* is handled only if questionId is a configured question and              *)
(* -1 <= choiceIndex < number of choices; index -1 removes the stored      *)
(* answer of that question, any other index stores the id of the choice at *)
(* that index, and no other question's answer changes.                     *)
(***************************************************************************)
C16_TouchAnswer ==
    /\ handleFunc = "handleSpecificAnswerByTouch"
       => /\ input.kind = UserEvent
          /\ Len(input.arguments) = 4
          /\ input.arguments[1] = QuestionnaireId
          /\ input.arguments[2] = "radioClick"
          /\ input.arguments[3] \in QuestionIds
          /\ input.arguments[4] >= -1
          /\ input.arguments[4] < Len(QuestionnaireContent.choices)
    /\ TouchTurnHandled
       => /\ IF input.arguments[4] = -1
             THEN EntriesStored(state.value, input.arguments[3]) = 0
             ELSE /\ EntriesStored(state.value, input.arguments[3]) = 1
                  /\ ChoicesStored(state.value, input.arguments[3]) =
                        {QuestionnaireContent.choices[input.arguments[4] + 1].id}
          /\ \A q \in QuestionIds \ {input.arguments[3]} :
                /\ ChoicesStored(state.value, q) = ChoicesStored(pre.value, q)
                /\ EntriesStored(state.value, q) = EntriesStored(pre.value, q)

\* index -1 removes the answer of one question while another keeps its own
C16_Witness ==
    /\ TouchTurnHandled
    /\ input.arguments[4] = -1
    /\ EntriesStored(pre.value, input.arguments[3]) = 1
    /\ EntriesStored(state.value, input.arguments[3]) = 0
    /\ Len(state.value) = 1

\* the test 'answering by touch': ['question', 'radioClick', 'cough', 1]
C16_WitnessSet ==
    /\ TouchTurnHandled
    /\ input.arguments = <<QuestionnaireId, "radioClick", "cough", 1>>
    /\ pre.value = <<>>
    /\ state.value = <<[questionId |-> "cough", choiceId |-> "no"]>>

\* a touch event with an index past the choices is not handled
C16_WitnessRejected ==
    /\ phase = "canHandleFalse"
    /\ input.kind = UserEvent
    /\ Len(input.arguments) = 4
    /\ input.arguments[4] = Len(QuestionnaireContent.choices)

(***************************************************************************)
(* C17: handling a touch selection adds no content act to the result of    *)
(* the turn, in every state and for either setting of confirmationRequired *)
(***************************************************************************)
C17_TouchAddsNoContentAct ==
    TouchTurnHandled => ContentActs(acts) = <<>>

\* a handled turn whose input is a completion request
CompletionTurnHandled == QTurnHandled /\ handleFunc \in CompletionHandlers
\* the validation configured for the control accepts the answers held at the
\* start of the turn
ValidationAccepts == cfg.valid = ValidDefault \/ AllAnswered(pre.value)

(***************************************************************************)
(* C18: a completion request (voice, touch, or bare yes to                 *)
(* AskIfCompleteAct) runs the validation: if it succeeds,                  *)
(* isExplicitlyCompleted becomes true and a CompletedAct is emitted;       *)
(* otherwise a QuestionnaireCompletionRejectedAct carrying the reason is   *)
(* emitted and completion is not marked; no stored answer changes.         *)
(***************************************************************************)
C18_CompletionRequest ==
    /\ handleFunc = "handleCompletionRequest (bare yes)"
       => pre.activeInitiative.actName = AskIfCompleteAct /\ input.kind = YesIntent
    /\ CompletionTurnHandled
       => /\ state.value = pre.value
          /\ acts # <<>>
          /\ IF ValidationAccepts
             THEN /\ state.isExplicitlyCompleted = TrueFlag
                  /\ acts[1] = QPlainAct(CompletedAct)
             ELSE /\ acts[1] = QAct(QuestionnaireCompletionRejectedAct, Undefined, Undefined,
                                    FALSE, FALSE, "incomplete")
                  /\ ActsNamed(acts, CompletedAct) = <<>>
                  /\ state.isExplicitlyCompleted # TrueFlag
                  /\ state.isExplicitlyCompleted = pre.isExplicitlyCompleted

\* a completion request by voice is rejected while a question is unanswered
C18_Witness ==
    /\ CompletionTurnHandled
    /\ handleFunc = "handleCompletionRequest (voice)"
    /\ ~ValidationAccepts
    /\ Len(pre.value) = 1
    /\ acts[1].name = QuestionnaireCompletionRejectedAct
    /\ acts[1].reasonCode = "incomplete"

\* a bare yes to the completion question completes the questionnaire
C18_WitnessYes ==
    /\ CompletionTurnHandled
    /\ handleFunc = "handleCompletionRequest (bare yes)"
    /\ cfg.valid = ValidAllAnswered
    /\ state.isExplicitlyCompleted = TrueFlag
    /\ acts[1] = QPlainAct(CompletedAct)

\* a completion request by touch completes the questionnaire
C18_WitnessTouch ==
    /\ CompletionTurnHandled
    /\ handleFunc = "handleCompletionRequest (touch)"
    /\ state.isExplicitlyCompleted = TrueFlag

\* the explicit completion requests: by voice and by touch
CompletionRequests ==
    {QGeneralIntent(Undefined, ActionComplete, Undefined),
     QGeneralIntent(Affirm, ActionComplete, TargetIt),
     QUserEvent(<<QuestionnaireId, "complete">>)}

(***************************************************************************)
(* C19: a handled bare no to an AskIfCompleteAct emits                     *)
(* AcknowledgeNotCompleteAct, leaves isExplicitlyCompleted false and sets  *)
(* requireExplicitCompletion; once set it stays set through every later    *)
(* turn, no AskIfCompleteAct is emitted again (the completion initiative   *)
(* is SuggestContinueAct), and a completion request is still handled.      *)
(***************************************************************************)
C19_BareNoStopsAsking ==
    /\ (QTurnHandled /\ handleFunc = "handleBareNoToCompletionQuestion")
       => /\ pre.activeInitiative.actName = AskIfCompleteAct
          /\ acts[1] = QPlainAct(AcknowledgeNotCompleteAct)
          /\ state.isExplicitlyCompleted = FalseFlag
          /\ state.requireExplicitCompletion = TrueFlag
    /\ truthy(pre.requireExplicitCompletion) => truthy(state.requireExplicitCompletion)
    /\ truthy(state.requireExplicitCompletion)
       => /\ ActsNamed(acts, AskIfCompleteAct) = <<>>
          /\ state.activeInitiative.actName # AskIfCompleteAct
          /\ (phase = "done" /\ initiativeFunc = "askIfComplete")
             => LastActName = SuggestContinueAct
          /\ (phase \notin {"idle", "start"} /\ input \in CompletionRequests)
             => /\ handleFunc \in CompletionHandlers
                /\ phase # "canHandleFalse"

\* in a turn after the bare no the control suggests to continue
C19_Witness ==
    /\ truthy(pre.requireExplicitCompletion)
    /\ phase = "done"
    /\ handleFunc \in AnswerHandlers
    /\ LastActName = SuggestContinueAct

\* after the bare no a completion request completes the questionnaire
C19_WitnessComplete ==
    /\ truthy(pre.requireExplicitCompletion)
    /\ CompletionTurnHandled
    /\ state.isExplicitlyCompleted = TrueFlag
    /\ ActsNamed(acts, CompletedAct) # <<>>

C20_WitnessUnmapped ==
    /\ phase = "canHandleFalse"
    /\ input.kind = FallbackIntent
    /\ state.activeInitiative.actName = AskQuestionAct

\* a bare yes is not handled as an answer when no question was just asked
C20_WitnessNotAsked ==
    /\ phase = "canHandleFalse"
    /\ input.kind = YesIntent
    /\ state.focusQuestionId # Undefined
    /\ state.activeInitiative.actName = Undefined
TargetedHandlers ==
    {"handleSpecificAnswerToSpecificQuestion", "handleFeedbackAnswerToSpecificQuestion"}
\* the input names a configured question by target and gives a configured
\* choice, as a value or through feedback
TargetedAnswerInput ==
    \/ isSpecificAnswerToSpecificQuestion(pre, props, input)
    \/ isFeedbackAnswerToSpecificQuestion(pre, props, input)
TargetedTurnHandled == QTurnHandled /\ handleFunc \in TargetedHandlers

(***************************************************************************)
(* C21: an answer that names a question by target, the choice given as a   *)
(* value or through feedback, is selected whatever focusQuestionId and     *)
(* activeInitiative are and is applied to the question whose targets       *)
(* contain the target: that question holds the given choice, no other      *)
(* question's answer changes, the handler leaves focusQuestionId as it     *)
(* was, and the first act is a QuestionAnsweredAct for that question and   *)
(* choice with userAnsweredWithExplicitValue and userMentionedQuestion     *)
(* both true.                                                              *)
(***************************************************************************)
C21_TargetedAnswer ==
    /\ (phase \notin {"idle", "start"} /\ TargetedAnswerInput)
       => /\ phase # "canHandleFalse"
          /\ handleFunc \in TargetedHandlers
          /\ phase # "threw"
    /\ TargetedTurnHandled
       => /\ TargetedAnswerInput
          /\ Includes((CHOOSE q \in Range(QuestionnaireContent.questions) :
                          q.id = AnsweredQuestion).targets, input.target)
          /\ ChoicesStored(state.value, AnsweredQuestion) = {AnsweredChoice}
          /\ \A q \in QuestionIds \ {AnsweredQuestion} :
                ChoicesStored(state.value, q) = ChoicesStored(pre.value, q)
          /\ phase \in {"handled", "canInitTrue", "canInitFalse"}
             => state.focusQuestionId = pre.focusQuestionId
          /\ acts # <<>>
          /\ acts[1] = QAct(QuestionAnsweredAct, AnsweredQuestion, AnsweredChoice,
                            TRUE, TRUE, Undefined)
          /\ Len(ActsNamed(acts, QuestionAnsweredAct)) = 1

\* "cough" is answered by value while the control has asked about headache
C21_Witness ==
    /\ TargetedTurnHandled
    /\ phase = "handled"
    /\ handleFunc = "handleSpecificAnswerToSpecificQuestion"
    /\ pre.activeInitiative.actName = AskQuestionAct
    /\ pre.focusQuestionId = "headache"
    /\ AnsweredQuestion = "cough"
    /\ ChoicesStored(pre.value, "cough") = {}
    /\ ChoicesStored(state.value, "cough") = {"no"}
    /\ ChoicesStored(state.value, "headache") = {}
    /\ state.focusQuestionId = "headache"

\* a question is re-answered through feedback after the completion question
C21_WitnessFeedback ==
    /\ TargetedTurnHandled
    /\ handleFunc = "handleFeedbackAnswerToSpecificQuestion"
    /\ pre.activeInitiative.actName = AskIfCompleteAct
    /\ AnsweredQuestion = "headache"
    /\ ChoicesStored(pre.value, "headache") = {"yes"}
    /\ ChoicesStored(state.value, "headache") = {"no"}
\* the handlers of the control in the order canHandle tries them
AllInputHandlers == standardInputHandlers \o props.inputHandling.customHandlingFuncs
\* the guard of the i-th handler on the state and input of the turn
GuardPasses(i) == handlerCanHandle(AllInputHandlers[i], pre, props, input)
PassingHandlers == {i \in 1..Len(AllInputHandlers) : GuardPasses(i)}
CanHandleCalled == phase \notin {"idle", "start"}

(***************************************************************************)
(* C22: canHandle tries the guards of the standard handlers and then of    *)
(* the custom handlers in their declared order; it returns false exactly   *)
(* when no guard passes and otherwise selects the first handler whose      *)
(* guard passes, a standard handler whenever one passes, so the handler    *)
(* that handle runs is determined by the control state and the input, also *)
(* when several guards pass.                                               *)
(***************************************************************************)
C22_FirstMatchSelected ==
    CanHandleCalled
    => /\ (PassingHandlers = {}) = (handleFunc = Undefined)
       /\ handleFunc = Undefined => phase \in {"canHandleFalse", "canInitTrue", "canInitFalse", "done"}
       /\ PassingHandlers # {}
          => /\ \E i \in PassingHandlers :
                   /\ \A j \in PassingHandlers : i <= j
                   /\ handleFunc = AllInputHandlers[i]
             /\ (\E i \in PassingHandlers : i <= Len(standardInputHandlers))
                => Includes(standardInputHandlers, handleFunc)
             /\ phase = "handled"
                => LET r == questionnaireHandle(
                                AllInputHandlers[CHOOSE i \in PassingHandlers :
                                                    \A j \in PassingHandlers : i <= j],
                                pre, props, input, <<>>, FALSE)
                   IN  state = r.state /\ acts = r.acts

\* a start request passes the guard of handleActivate and of the custom
\* handler: handleActivate has run
C22_Witness ==
    /\ phase = "handled"
    /\ Cardinality(PassingHandlers) = 2
    /\ handleFunc = "handleActivate"
    /\ truthy(state.explicitlyActivated)
    /\ ActsNamed(acts, CustomHandledAct) = <<>>

\* a start request with a target the control does not own passes the custom
\* guard only
C22_WitnessCustom ==
    /\ phase = "handled"
    /\ PassingHandlers = {Len(AllInputHandlers)}
    /\ handleFunc = CustomStartHandler
    /\ ActsNamed(acts, CustomHandledAct) # <<>>

\* no guard passes
C22_WitnessNone ==
    /\ phase = "canHandleFalse"
    /\ input.kind = FallbackIntent
    /\ handleFunc = Undefined
(***************************************************************************)
(* Both controls under a runtime that may also call handle and             *)
(* takeInitiative out of turn: handle before canHandle or after it         *)
(* returned false, takeInitiative before canTakeInitiative or after it     *)
(* returned false.                                                         *)
(***************************************************************************)
\* the control under test is a MultiValueListControl
IsMultiValueList == "validation" \in DOMAIN cfg

\* a list control validated by validateProducts, or a required questionnaire
\* whose completion is validated
InitControls ==
    \/ Init /\ cfg.validation = <<"validateProducts">>
    \/ InitQ /\ cfg.required /\ cfg.valid = ValidAllAnswered

HandleOutOfSync ==
    /\ phase \in {"start", "canHandleFalse"}
    /\ HandleCall

TakeInitiativeOutOfSync ==
    /\ \/ phase \in {"start", "canHandleFalse", "canInitFalse"}
       \/ phase = "handled" /\ ~hasInitiativeAct(acts)
    /\ TakeInitiativeCall

QHandleOutOfSync ==
    /\ phase \in {"start", "canHandleFalse"}
    /\ QHandleCall

QTakeInitiativeOutOfSync ==
    /\ \/ phase \in {"start", "canHandleFalse", "canInitFalse"}
       \/ phase = "handled" /\ ~hasInitiativeAct(acts)
    /\ QTakeInitiativeCall

NextControls ==
    \/ IsMultiValueList /\ Next
    \/ IsMultiValueList /\ HandleOutOfSync
    \/ IsMultiValueList /\ TakeInitiativeOutOfSync
    \/ ~IsMultiValueList /\ NextQ
    \/ ~IsMultiValueList /\ QHandleOutOfSync
    \/ ~IsMultiValueList /\ QTakeInitiativeOutOfSync

SpecControls == InitControls /\ [][NextControls]_mvVars

\* the initiative guards that pass in the current state
InitiativeGuardsPassing ==
    IF IsMultiValueList
    THEN {g \in {"wantsToConfirmValue", "wantsToElicitValue"} :
            IF g = "wantsToConfirmValue" THEN wantsToConfirmValue(state, props)
            ELSE wantsToElicitValue(state, props)}
    ELSE {g \in {"wantsToAskLineItemQuestion", "wantsToAskIfComplete"} :
            IF g = "wantsToAskLineItemQuestion" THEN wantsToAskLineItemQuestion(state, props)
            ELSE wantsToAskIfComplete(state, props)}

(***************************************************************************)
(* C23: in every reachable state of either control at most one initiative  *)
(* guard passes (wantsToConfirmValue and wantsToElicitValue are never both *)
(* true, nor are wantsToAskLineItemQuestion and wantsToAskIfComplete), and *)
(* when initiative is taken the turn holds exactly one initiative act.     *)
(***************************************************************************)
C23_OneInitiativeGuard ==
    /\ Cardinality(InitiativeGuardsPassing) <= 1
    /\ phase \in {"canInitTrue", "done"} => initiativeFunc # Undefined
    /\ phase = "canInitTrue" => Cardinality(InitiativeGuardsPassing) = 1
    /\ phase = "done" => Len(InitiativeActsOf(acts)) = 1
    /\ (IsMultiValueList /\ phase = "handled") => Len(InitiativeActsOf(acts)) <= 1

\* the questionnaire asks whether it is complete: every question answered
C23_Witness ==
    /\ ~IsMultiValueList
    /\ phase = "done"
    /\ initiativeFunc = "askIfComplete"
    /\ InitiativeGuardsPassing = {"wantsToAskIfComplete"}
    /\ AllAnswered(state.value)
    /\ acts[Len(acts)].name = AskIfCompleteAct

\* the list control asks to confirm a held value
C23_WitnessConfirm ==
    /\ IsMultiValueList
    /\ phase = "canInitTrue"
    /\ InitiativeGuardsPassing = {"wantsToConfirmValue"}

\* the list control elicits a value
C23_WitnessElicit ==
    /\ IsMultiValueList
    /\ phase = "done"
    /\ initiativeFunc = "elicitValue"
    /\ acts[Len(acts)].name = RequestValueByListAct
\* nothing the control holds has changed in the step
ControlUntouched ==
    UNCHANGED <<props, state, handleFunc, initiativeFunc, acts, inputWasAnswerByTouch>>
\* the step ends a call of handle or takeInitiative
CallReturned == phase' \in {"handled", "done", "threw", "fatal"}

(***************************************************************************)
(* C24: no handler is stored before canHandle has selected one and no      *)
(* initiative function before canTakeInitiative has; a call of handle in   *)
(* a turn in which canHandle selected no handler (not called, or returned  *)
(* false), and a call of takeInitiative in a turn in which                 *)
(* canTakeInitiative selected none, throw and change nothing the control   *)
(* holds: no handler runs.                                                 *)
(***************************************************************************)
C24_OutOfSyncThrows ==
    /\ [](phase \in {"start", "canHandleFalse"}
            => handleFunc = Undefined /\ initiativeFunc = Undefined)
    /\ []((phase = "canInitFalse" \/ (phase = "handled" /\ ~hasInitiativeAct(acts)))
            => initiativeFunc = Undefined)
    /\ [][/\ (phase \in {"start", "canHandleFalse"} /\ CallReturned)
             => (phase' = "fatal" /\ ControlUntouched)
          /\ ((phase = "canInitFalse" \/ (phase = "handled" /\ ~hasInitiativeAct(acts)))
              /\ CallReturned)
             => (phase' = "fatal" /\ ControlUntouched)
          /\ (phase = "canHandleTrue" /\ CallReturned) => phase' # "fatal"
          /\ (phase = "canInitTrue" /\ CallReturned) => phase' # "fatal"]_mvVars

\* the list control is told to handle a bare yes that it had declined
C24_Witness ==
    /\ IsMultiValueList
    /\ phase = "fatal"
    /\ isBareYes(input)
    /\ handleFunc = Undefined
    /\ state = pre
    /\ state.valueDefined
    /\ acts = <<>>

\* the questionnaire is told to take the initiative after it has handled
\* an answer, without having been asked whether it wants to
C24_WitnessInitiative ==
    /\ ~IsMultiValueList
    /\ phase = "fatal"
    /\ handleFunc \in AnswerHandlers
    /\ initiativeFunc = Undefined
    /\ Len(acts) = 1
    /\ state # pre
(***************************************************************************)
(* C25: a remove request naming a value that is not held never raises an   *)
(* exception, in any control state and also when no value has ever been    *)
(* held: the turn is handled and holds an InvalidValueAct for that value   *)
(* followed by a RequestRemovedValueByListAct.                             *)
(***************************************************************************)
C25_RemoveOfAbsentIsRejected ==
    (/\ phase \in {"handled", "threw"}
     /\ handleFunc = "handleRemoveWithValue"
     /\ C2_Missing(Ids(HeldBefore), C2_Request) # 0)
    => /\ phase = "handled"
       /\ \E i \in 1..(Len(acts) - 1) :
            /\ acts[i] = Act(InvalidValueAct,
                             <<C2_Request[C2_Missing(Ids(HeldBefore), C2_Request)]>>,
                             Undefined, <<>>)
            /\ acts[i + 1].name = RequestRemovedValueByListAct
\* the input carries an explicit value that is not one of the choices
ValueIsNoChoice == input.valueStr # Undefined /\ input.valueStr \notin ChoiceIds

(***************************************************************************)
(* C26: every input for which canHandle of the questionnaire returned true *)
(* is handled without an exception; an explicit answer value that is not   *)
(* one of the configured choices is matched by no guard or is reported     *)
(* through an act of the result.                                           *)
(***************************************************************************)
C26_HandleNeverThrows ==
    /\ phase # "threw"
    /\ (QTurnHandled /\ ValueIsNoChoice) => acts # <<>>
\* the ids of which the turn has deleted a copy from the held list
DeletedIds ==
    {x \in Range(Ids(HeldBefore)) : Count(Ids(HeldNow), x) < Count(Ids(HeldBefore), x)}
\* the ids the ValueRemovedActs of the turn name
ReportedRemovedIds ==
    UNION {Range(ActsNamed(acts, ValueRemovedAct)[i].value) :
             i \in 1..Len(ActsNamed(acts, ValueRemovedAct))}

(***************************************************************************)
(* C27: every value a remove turn deletes from the held list is named in a *)
(* ValueRemovedAct of the same turn, also when the request fails part-way  *)
(* on a later id that is not held.                                         *)
(***************************************************************************)
C27_RemovalsAreReported ==
    RemoveTurnHandled => DeletedIds \subseteq ReportedRemovedIds
\* the ids of the proposed values that some configured validation function
\* names as invalid
RejectedBySomeFunction ==
    UNION {Range(SlotValidationFunction(props.validation[i], C1_Proposed).invalidValues) :
             i \in 1..Len(props.validation)}
\* the values the add turn has appended to the held list
AppendedValues == SubSeq(HeldNow, Len(HeldBefore) + 1, Len(HeldNow))

(***************************************************************************)
(* C28: with several validation functions configured, an add turn appends  *)
(* no value that any of the functions rejects: a proposed value is added   *)
(* only if every configured function accepts it.                           *)
(***************************************************************************)
C28_NoRejectedValueAdded ==
    AddTurnHandled => Range(Ids(AppendedValues)) \cap RejectedBySomeFunction = {}
(***************************************************************************)
(* C29: whatever the validation function returns, an add turn holds an     *)
(* InvalidValueAct only if at least one proposed value was rejected (not   *)
(* appended), and the ids the act lists are a non-empty subset of the      *)
(* proposed ids.                                                           *)
(***************************************************************************)
C29_InvalidActNamesRejected ==
    AddTurnHandled
    => \A i \in 1..Len(acts) :
         acts[i].name = InvalidValueAct
         => /\ acts[i].value # <<>>
            /\ Range(acts[i].value) \subseteq Range(Ids(C1_Proposed))
            /\ Len(AppendedValues) < Len(C1_Proposed)
TargetlessHandlers ==
    {"handleBareAnswerToAskedQuestion", "handleSpecificAnswerToAskedQuestion"}
\* the acts with which askLineItemQuestion asks a question
LineItemQuestionActs == {AskQuestionAct, ActiveAPLInitiativeAct}

(***************************************************************************)
(* C30: an answer that names no question, bare or with an explicit value,  *)
(* changes a stored answer only in the turn directly after the control     *)
(* asked the focus question; after AskIfCompleteAct or SuggestContinueAct, *)
(* or after a turn without initiative, it is not applied to the question   *)
(* that was in focus before.                                               *)
(***************************************************************************)
C30_TargetlessAnswerNeedsQuestion ==
    (QTurnHandled /\ handleFunc \in TargetlessHandlers /\ state.value # pre.value)
    => prevInitiative \in LineItemQuestionActs
\* the validation of the turn's completion request, on the state the turn
\* started in
CompletionAccepted ==
    evaluateValidationProp(props.valid, pre, input, props.questionnaireData).ok

(***************************************************************************)
(* C31: isExplicitlyCompleted is true at the end of a handled turn only if *)
(* the turn handled a completion request whose validation succeeded; after *)
(* every other handled input (activate, an answer, a touch selection, a    *)
(* bare no to the completion question, a rejected completion request) it   *)
(* is not true.                                                            *)
(***************************************************************************)
C31_CompletedOnlyByAcceptedRequest ==
    (QTurnHandled /\ truthy(state.isExplicitlyCompleted))
    => (handleFunc \in CompletionHandlers /\ CompletionAccepted)
(***************************************************************************)
(* C32: the result of a MultiValueListControl turn holds at most one       *)
(* initiative act, and it is the last act: handle takes the confirm or     *)
(* elicit initiative only when the handler has emitted no initiative act   *)
(* itself, so the re-elicitation after a failed remove and the             *)
(* SuggestActionAct after a disaffirmed confirmation are not followed by a *)
(* ConfirmValueAct.                                                        *)
(***************************************************************************)
C32_OneInitiativeActLast ==
    /\ Len(InitiativeActsOf(acts)) <= 1
    /\ hasInitiativeAct(acts) => acts[Len(acts)].name \in InitiativeActs
    /\ (RemoveTurnHandled /\ ActsNamed(acts, InvalidValueAct) # <<>>)
       => /\ acts[Len(acts)].name = RequestRemovedValueByListAct
          /\ ActsNamed(acts, ConfirmValueAct) = <<>>
    /\ (phase = "handled" /\ handleFunc = "handleConfirmationDisaffirmed")
       => acts = <<Act(SuggestActionAct, <<>>, Undefined, <<>>)>>

\* a failed remove while the held value still awaits confirmation
C32_Witness ==
    /\ RemoveTurnHandled
    /\ C3_WantsConfirmation
    /\ Len(acts) = 2
    /\ acts[1].name = InvalidValueAct
    /\ acts[2].name = RequestRemovedValueByListAct

\* a disaffirmed confirmation while the held value still awaits confirmation
C32_WitnessDisaffirmed ==
    /\ phase = "handled"
    /\ handleFunc = "handleConfirmationDisaffirmed"
    /\ C3_WantsConfirmation
    /\ Len(acts) = 1
(***************************************************************************)
(* The list control of a later request: the state rehydrated holds a list  *)
(* built by earlier add turns, up to one entry longer than a list the add  *)
(* turns of this specification build, with repeated ids                    *)
(***************************************************************************)
HeldLists ==
    {[i \in 1..Len(q) |-> MultiValueListStateValue(q[i], TRUE)] :
        q \in SeqsOf({"iPhone", "AirPods"}, 1, MaxHeld + 1)}

InitHeld ==
    /\ cfg \in [required : BOOLEAN, confirmationRequired : {FALSE},
                validation : {<<>>, <<"validateProducts">>}]
    /\ props = mergeWithDefaultProps(cfg)
    /\ \E held \in HeldLists :
         state = [MultiValueListControlState EXCEPT !.valueDefined = TRUE, !.value = held]
    /\ input = NoInput
    /\ handleFunc = Undefined
    /\ initiativeFunc = Undefined
    /\ acts = <<>>
    /\ phase = "idle"
    /\ pre = state
    /\ emitted = Undefined
    /\ prevInitiative = Undefined
    /\ inputWasAnswerByTouch = FALSE

SpecHeld == InitHeld /\ [][Next]_mvVars

\* s without the first entry whose id is x
WithoutEarliest(s, x) ==
    LET k == CHOOSE k \in 1..Len(s) : s[k].id = x /\ \A j \in 1..(k - 1) : s[j].id # x
    IN  SubSeq(s, 1, k - 1) \o SubSeq(s, k + 1, Len(s))
\* s without the first entry of each id of xs in turn
RECURSIVE WithoutEarliestOfEach(_, _)
WithoutEarliestOfEach(s, xs) ==
    IF xs = <<>> THEN s
    ELSE WithoutEarliestOfEach(WithoutEarliest(s, Head(xs)), Tail(xs))

(***************************************************************************)
(* C33: the held values are a list in insertion order that is never        *)
(* de-duplicated: an add appends every accepted value at the end, also an  *)
(* id that is already held (the list then holds it twice), and a remove    *)
(* request takes out, for each id it names, exactly one entry, the         *)
(* earliest one with that id, leaving the other entries in their order.    *)
(***************************************************************************)
C33_InsertionOrderNoDedup ==
    /\ AddTurnHandled => HeldNow = HeldBefore \o C1_Accepted
    /\ (RemoveTurnHandled /\ pre.valueDefined)
       => /\ state.value =
               WithoutEarliestOfEach(pre.value, C2_Processed(Ids(pre.value), C2_Request))
          /\ IsSubsequence(state.value, pre.value)

\* the id held first and last is removed once: the first entry goes
C33_Witness ==
    /\ RemoveTurnHandled
    /\ Ids(pre.value) = <<"iPhone", "AirPods", "iPhone">>
    /\ C2_Request = <<"iPhone">>
    /\ Ids(state.value) = <<"AirPods", "iPhone">>

\* an id already held is added again
C33_WitnessAdd ==
    /\ AddTurnHandled
    /\ Ids(HeldBefore) = <<"iPhone">>
    /\ Ids(C1_Proposed) = <<"iPhone">>
    /\ Ids(HeldNow) = <<"iPhone", "iPhone">>
\* the handlers of the inputs that clear the completion flag: activate, the
\* answers by voice and by touch, and the bare no to the completion question
FlagClearingHandlers ==
    {"handleActivate", "handleBareNoToCompletionQuestion"} \cup AnswerHandlers
InitiativeTaken == phase \in {"canInitTrue", "done"} \/ hasInitiativeAct(acts)

(***************************************************************************)
(* C34: once a completion request has been accepted the questionnaire      *)
(* takes no initiative, neither in that turn nor in a later one, for as    *)
(* long as isExplicitlyCompleted stays true; the flag is cleared only by a *)
(* handled activate, answer, touch or bare-no input, and a turn that       *)
(* starts completed takes initiative only after such an input.             *)
(***************************************************************************)
C34_NoInitiativeWhileCompleted ==
    /\ truthy(state.isExplicitlyCompleted) => ~InitiativeTaken
    /\ (truthy(pre.isExplicitlyCompleted) /\ ~truthy(state.isExplicitlyCompleted))
       => (QTurnHandled /\ handleFunc \in FlagClearingHandlers)
    /\ (truthy(pre.isExplicitlyCompleted) /\ InitiativeTaken)
       => (QTurnHandled /\ handleFunc \in FlagClearingHandlers)

\* a later turn of a completed questionnaire with an open question: the
\* input is not handled and canTakeInitiative has returned false
C34_Witness ==
    /\ truthy(pre.isExplicitlyCompleted)
    /\ truthy(state.isExplicitlyCompleted)
    /\ ~AllAnswered(state.value)
    /\ handleFunc = Undefined
    /\ phase = "canInitFalse"

\* the turn of the accepted request itself
C34_WitnessSameTurn ==
    /\ CompletionTurnHandled
    /\ ~truthy(pre.isExplicitlyCompleted)
    /\ truthy(state.isExplicitlyCompleted)
    /\ ~AllAnswered(state.value)
    /\ phase = "canInitFalse"

\* an answer given to a completed questionnaire brings the initiative back
C34_WitnessResumed ==
    /\ truthy(pre.isExplicitlyCompleted)
    /\ AnswerTurnHandled
    /\ phase = "done"
(***************************************************************************)
(* C35: while confirmed = true with confirmation required, the held ids    *)
(* are the ids of the most recent ValueConfirmedAct: the act of an         *)
(* affirmation lists the held ids, the held list does not change while     *)
(* confirmed stays true, and an add or remove that changes the list of a   *)
(* confirmed control ends with a new confirmation request.                 *)
(***************************************************************************)
C35_ConfirmedListIsHeldList ==
    cfg.confirmationRequired =>
      /\ (phase = "handled" /\ handleFunc = "handleConfirmationAffirmed"
            /\ state.confirmed = "true")
         => ActsNamed(acts, ValueConfirmedAct) =
              <<Act(ValueConfirmedAct, Ids(HeldNow), Undefined, <<>>)>>
      /\ (pre.confirmed = "true" /\ state.confirmed = "true") => HeldNow = HeldBefore
      /\ (pre.confirmed = "true" /\ (AddTurnHandled \/ RemoveTurnHandled)
            /\ HeldNow # HeldBefore /\ HeldNow # <<>>)
         => ActsNamed(acts, ConfirmValueAct) # <<>>
(***************************************************************************)
(* C36: no turn of the questionnaire emits more than one CompletedAct, for *)
(* either value of confirmationRequired and for every handler, an explicit *)
(* completion request on a fully answered questionnaire included.          *)
(***************************************************************************)
C36_OneCompletedActPerTurn == Len(ActsNamed(acts, CompletedAct)) <= 1
(***************************************************************************)
(* The questionnaire with a user who follows the questions: the skill is   *)
(* opened by a start request or a launch, and every later turn is a bare   *)
(* yes or no given right after the control has asked a question            *)
(***************************************************************************)
OpeningInputs == {QGeneralIntent(Undefined, ActionStart, Undefined), QBareIntent(LaunchRequest)}
BareAnswerInputs == {QBareIntent(YesIntent), QBareIntent(NoIntent)}

NextQBareAnswers ==
    \/ \E in \in OpeningInputs : state = QuestionnaireControlState /\ QNewTurn(in)
    \/ \E in \in BareAnswerInputs : prevInitiative = AskQuestionAct /\ QNewTurn(in)
    \/ QCanHandle
    \/ QHandle
    \/ QCanTakeInitiative
    \/ QTakeInitiative
    \/ QEndTurn

SpecQBareAnswers == InitQ /\ [][NextQBareAnswers]_mvVars

\* the first n questions answered, in configured order
AnsweredInOrder(value, n) ==
    /\ Len(value) = n
    /\ n <= Len(QuestionnaireContent.questions)
    /\ \A i \in 1..n : value[i].questionId = QuestionnaireContent.questions[i].id
BareAnswerTurn == phase \notin {"idle", "start"} /\ input \in BareAnswerInputs

(***************************************************************************)
(* C37: when every turn after the opening is a valid bare answer to the    *)
(* question just asked, the questions are asked one by one in configured   *)
(* order, each once: the n-th answer turn stores the answer of the n-th    *)
(* question and nothing else, so after as many answer turns as there are   *)
(* questions all are answered; that turn ends with CompletedAct            *)
(* (confirmationRequired = false) or AskIfCompleteAct (true) and asks no   *)
(* question.                                                               *)
(***************************************************************************)
C37_BareAnswersTerminate ==
    LET n == Len(QuestionnaireContent.questions)
        k == Len(pre.value)
    IN  /\ AnsweredInOrder(pre.value, k)
        /\ BareAnswerTurn =>
             /\ k < n
             /\ pre.focusQuestionId = QuestionnaireContent.questions[k + 1].id
             /\ handleFunc = "handleBareAnswerToAskedQuestion"
             /\ phase # "threw"
        /\ (BareAnswerTurn /\ phase # "canHandleTrue") =>
             /\ state.value = Append(pre.value, [questionId |-> pre.focusQuestionId,
                                                 choiceId |-> AnsweredChoice])
        /\ ~BareAnswerTurn => state.value = pre.value
        /\ (phase = "done" /\ ~AllAnswered(state.value)) =>
             /\ acts[Len(acts)] =
                  QAct(AskQuestionAct, QuestionnaireContent.questions[Len(state.value) + 1].id,
                       Undefined, FALSE, FALSE, Undefined)
             /\ Len(ActsNamed(acts, AskQuestionAct)) = 1
        /\ (TurnOver /\ ~AllAnswered(state.value)) => phase = "done"
        /\ (TurnOver /\ AllAnswered(state.value)) =>
             /\ BareAnswerTurn /\ k = n - 1
             /\ LastActName = IF cfg.confirmationRequired THEN AskIfCompleteAct ELSE CompletedAct
             /\ ActsNamed(acts, AskQuestionAct) = <<>>
        /\ AllAnswered(pre.value) => phase = "idle"

\* the last question has just been answered, confirmation not required
C37_Witness ==
    /\ TurnOver
    /\ BareAnswerTurn
    /\ ~cfg.confirmationRequired
    /\ AllAnswered(state.value)
    /\ Len(pre.value) = Len(QuestionnaireContent.questions) - 1
    /\ LastActName = CompletedAct

\* the same with confirmation required
C37_WitnessConfirmation ==
    /\ TurnOver
    /\ BareAnswerTurn
    /\ cfg.confirmationRequired
    /\ AllAnswered(state.value)
    /\ LastActName = AskIfCompleteAct
(***************************************************************************)
(* C38: with static content, in every reachable state each key of the      *)
(* answers map is the id of a configured question and each choiceId stored *)
(* is the id of a configured choice.                                       *)
(***************************************************************************)
C38_AnswersAreConfigured ==
    \A i \in 1..Len(state.value) :
        /\ state.value[i].questionId \in QuestionIds
        /\ state.value[i].choiceId \in ChoiceIds
\* the last open question is answered by touch
C38_Witness ==
    /\ AnswerTurnHandled
    /\ handleFunc = "handleSpecificAnswerByTouch"
    /\ Len(state.value) = Len(QuestionnaireContent.questions)
    /\ Len(pre.value) < Len(state.value)

\* a touch event for a question that is not configured is not handled
C38_WitnessRefused ==
    /\ phase = "canHandleFalse"
    /\ input = QUserEvent(<<QuestionnaireId, "radioClick", "soreKnee", 0>>)
    /\ state.value # <<>>
\* the step is a call of canHandle or of canTakeInitiative by the runtime
GuardCalled ==
    /\ phase' # phase
    /\ phase' \in {"canHandleTrue", "canHandleFalse", "canInitTrue", "canInitFalse"}
\* the step is a call of handle or of takeInitiative that a guard allowed
HandlerCalled ==
    \/ phase = "canHandleTrue" /\ phase' \in {"handled", "threw"}
    \/ phase = "canInitTrue" /\ phase' \in {"done", "threw"}

(***************************************************************************)
(* C39: canHandle and canTakeInitiative of both controls leave the         *)
(* persisted control state as it is, for every input and every state; the  *)
(* state changes only in a call of handle or takeInitiative.               *)
(***************************************************************************)
C39_GuardsLeaveStateUnchanged ==
    [][/\ GuardCalled => state' = state
       /\ state' # state => HandlerCalled]_mvVars

\* the list control: canHandle has refused the input and canTakeInitiative
\* has selected the confirmation of the held value
C39_Witness ==
    /\ IsMultiValueList
    /\ phase = "canInitTrue"
    /\ handleFunc = Undefined
    /\ initiativeFunc = "confirmValue"
    /\ state = pre
    /\ state.valueDefined

\* the questionnaire: canHandle has selected a handler for an input that
\* gives an answer, the answers still as at the start of the turn
C39_WitnessQuestionnaire ==
    /\ ~IsMultiValueList
    /\ phase = "canHandleTrue"
    /\ handleFunc \in AnswerHandlers
    /\ state = pre
    /\ state.value # <<>>
ConfirmationHandlers == {"handleConfirmationAffirmed", "handleConfirmationDisaffirmed"}

(***************************************************************************)
(* C40: in every reachable state of the list control confirmed = true      *)
(* implies that lastInitiative is undefined, so that in a turn that starts *)
(* with the value marked confirmed a bare yes or no is not handled as the  *)
(* answer to a confirmation request.                                       *)
(***************************************************************************)
C40_ConfirmedHasNoLastInitiative ==
    /\ state.confirmed = "true" => state.lastInitiative = NoInitiative
    /\ (pre.confirmed = "true" /\ phase \notin {"idle", "start"})
       => handleFunc \notin ConfirmationHandlers

\* a bare yes to a control whose value is confirmed is left unhandled
C40_Witness ==
    /\ pre.confirmed = "true"
    /\ state.confirmed = "true"
    /\ input = BareIntent(YesIntent)
    /\ phase = "canHandleFalse"

\* a confirmed control goes on after values were added to its list
C40_WitnessAdded ==
    /\ pre.confirmed = "true"
    /\ AddTurnHandled
    /\ Len(HeldNow) > Len(HeldBefore)
    /\ state.confirmed = "true"

====
